---- MODULE Spec2Model ----
(***************************************************************************)
(* Request/response translation layer of the ADK backend adapters.         *)
(*                                                                         *)
(* Three handlers answer POST /v1/chat/completions:                        *)
(*   adk_openai_adapter.create_chat_completion  (HTTP bridge to ADK)       *)
(*   adk_agent_api.create_chat_completion       (in-process ADK runner)    *)
(*   main.chat_completions                      (run_sync bridge)          *)
(* One behaviour of Spec is the handling of one inbound request by one of  *)
(* them.  Every outbound call and every return of an outbound call is      *)
(* appended to `calls`, so ordering and multiplicity can be stated.        *)
(***************************************************************************)
EXTENDS Integers, Sequences, FiniteSets, TLC

VARIABLES
    handler,        \* which module serves the request
    request,        \* the inbound ChatCompletionRequest
    pc,             \* position of the handler coroutine
    session_id,     \* session id generated by the handler ("" before)
    calls,          \* log of outbound calls and their returns, in order
    response_data,  \* JSON body received from the message-send call
    agent_events,   \* events produced by the in-process runner
    status,         \* HTTP status answered to the caller (0 = none yet)
    detail,         \* pieces of the error detail, concatenated in order
    reply,          \* the chat.completion envelope answered on success
    \* ollama_proxy (/api/chat and /api/generate)
    provider,       \* LITELLM_PROVIDER, read once at import
    endpoint,       \* "chat" or "generate"
    ollama_request, \* the inbound ChatRequest / GenerateRequest
    kwargs,         \* the arguments prepared for litellm.acompletion
    relay_pc,       \* position of the proxy handler and of its generator
    backend,        \* what the LiteLLM stream has delivered so far
    frames,         \* the lines yielded to the StreamingResponse, in order
    proxy_status,   \* HTTP status of the proxy's answer (0 = none yet)
    proxy_reply,    \* body of the non-streaming answer
    tasks,          \* the adapter's requests in flight, one record per task
    \* adk_callback_handlers.OllamaCallbackHandler
    model_cache,    \* self.model_cache: message hash -> cached LlmResponse
    responses,      \* the LlmResponse objects, by identity
    cb_log,         \* the callback calls made so far, in order
    \* deployment/deploy.py
    FLAGS,          \* the command line flags and what the environment holds
    deploy_pc,      \* position in main
    gcp_calls,      \* the GCP client calls made so far, in order
    \* deployment/Helper/poetry_version.py
    DEFAULT_CONFIG, \* the class attribute DeployConfig.DEFAULT_CONFIG
    built,          \* the DeployConfig instances constructed so far
    \* test-ollama-proxy.py
    checks,         \* what each check of the script returned
    script_pc,      \* position in main
    all_tests_passed,
    exit_code,      \* exit status of the script (-1 while it runs)
    \* run_ollama_adk_integration.OllamaADKIntegrationRunner
    processes,      \* self.processes with what happened to each process
    runner_pc,      \* position in run_full_integration_test
    stop_runs,      \* how often stop_all_services has run to its end
    runner_path,    \* how the try block of run_full_integration_test ended
    \* test_ollama_adk_integration.py
    test_results,   \* self.test_results
    tester_pc,      \* position in run_all_tests
    tester_exit,    \* exit status of the test script (-1 while it runs)
    \* ollama_proxy /api/pull
    pull_body,      \* the JSON body of the pull request
    pull_answer     \* status and body answered

adapterVars == << handler, request, pc, session_id, calls, response_data,
                  agent_events, status, detail, reply >>

proxyVars == << provider, endpoint, ollama_request, kwargs, relay_pc, backend,
                frames, proxy_status, proxy_reply >>

callbackVars == << model_cache, responses, cb_log >>

deployVars == << FLAGS, deploy_pc, gcp_calls >>

configVars == << DEFAULT_CONFIG, built >>

scriptVars == << checks, script_pc, all_tests_passed, exit_code >>

runnerVars == << processes, runner_pc, stop_runs, runner_path >>

testerVars == << test_results, tester_pc, tester_exit >>

pullVars == << pull_body, pull_answer >>

\* the variables of the command line programs and of the callback handler
peripheralVars == << callbackVars, deployVars, configVars, scriptVars,
                    runnerVars, testerVars, pullVars >>

\* the variables of the three chat handlers, of the proxy's chat and
\* generate endpoints and of the concurrent adapter requests
serviceVars == << adapterVars, proxyVars, tasks >>

vars == << handler, request, pc, session_id, calls, response_data,
           agent_events, status, detail, reply,
           provider, endpoint, ollama_request, kwargs, relay_pc, backend,
           frames, proxy_status, proxy_reply, tasks,
           model_cache, responses, cb_log, FLAGS, deploy_pc, gcp_calls,
           DEFAULT_CONFIG, built, checks, script_pc, all_tests_passed,
           exit_code, processes, runner_pc, stop_runs, runner_path,
           test_results,
           tester_pc, tester_exit, pull_body, pull_answer >>

-----------------------------------------------------------------------------
(* Bounds *)

MaxMsgs == 2        \* longest inbound messages list
MaxEvents == 2      \* longest events list in a backend body
MaxAgentEvents == 2 \* longest event list produced by runner.run
MaxParts == 2       \* most parts in the content of a runner event

-----------------------------------------------------------------------------
(* Inbound request *)

Handlers == {"adk_openai_adapter", "adk_agent_api", "main"}

\* role is a free string; the handlers only tell "user" from the rest
Roles == {"user", "assistant"}

Contents == {"", "2+2?", "hi"}

Models == {"gpt-4o", "adk-data-science-agent"}

ChatMessage == [role : Roles, content : Contents]

RECURSIVE SeqsUpTo(_, _)
SeqsUpTo(S, n) ==
    IF n = 0 THEN {<< >>}
    ELSE LET shorter == SeqsUpTo(S, n - 1)
         IN  shorter \cup
             {Append(s, e) : s \in {t \in shorter : Len(t) = n - 1}, e \in S}

ChatCompletionRequest ==
    [model : Models, messages : SeqsUpTo(ChatMessage, MaxMsgs)]

-----------------------------------------------------------------------------
(* JSON values of the ADK API server's reply, as far as the code reads them *)

JAbsent == [k |-> "absent", s |-> ""]       \* the key is not there
JStr(t) == [k |-> "str", s |-> t]           \* a JSON string
JParts(t) == [k |-> "parts", s |-> t]       \* {"parts": [{"text": t}]}
JContentDict(t) == [k |-> "content", s |-> t]   \* {"content": t}
JEmptyDict == [k |-> "dict", s |-> ""]      \* {}

EventContents == {JAbsent, JStr(""), JStr("a"), JStr("b"), JParts("4")}

\* obj = FALSE is an element of the events list that is not a JSON object
BackendEvent ==
    [obj : {TRUE}, type : {""}, content : EventContents]
    \cup [obj : {TRUE}, type : {"agent_response"}, content : {JAbsent, JStr("a")}]
    \cup {[obj |-> FALSE, type |-> "", content |-> JAbsent]}

StateValues == {JAbsent, JStr("S"), JContentDict("C"), JEmptyDict}

EventLists == SeqsUpTo(BackendEvent, MaxEvents)

\* top = "list": the body is a JSON array of events (what /run returns);
\* top = "object": a JSON object with optional events, state, response keys
ResponseBodies ==
    [top : {"object"}, hasEvents : {TRUE}, events : EventLists,
     state : StateValues, response : {JAbsent, JStr("X")}]
    \cup [top : {"object"}, hasEvents : {FALSE}, events : {<< >>},
          state : StateValues, response : {JAbsent, JStr("X")}]
    \cup [top : {"list"}, hasEvents : {TRUE}, events : EventLists,
          state : {JAbsent}, response : {JAbsent}]

NoBody == [top |-> "none", hasEvents |-> FALSE, events |-> << >>,
           state |-> JAbsent, response |-> JAbsent]

\* Python truthiness of a JSON value
Truthy(v) ==
    CASE v.k = "str" -> v.s # ""
      [] v.k = "parts" -> TRUE
      [] v.k = "content" -> TRUE
      [] OTHER -> FALSE

\* Python str() of a JSON value: a str is itself, a dict is its repr
PyStr(v) ==
    CASE v.k = "str" -> v.s
      [] v.k = "parts" -> "{'parts': [{'text': '" \o v.s \o "'}]}"
      [] v.k = "content" -> "{'content': '" \o v.s \o "'}"
      [] v.k = "dict" -> "{}"
      [] OTHER -> ""

-----------------------------------------------------------------------------
(* Exceptions and the except clauses that turn them into HTTP answers *)

HTTPException(code, pieces) ==
    [type |-> "HTTPException", status_code |-> code, detail |-> pieces]

\* aiohttp.ClientConnectorError and the other subclasses of ClientError
ClientError == [type |-> "ClientError", status_code |-> 0,
                detail |-> <<"Cannot connect to host">>]

\* asyncio.TimeoutError, raised when a ClientTimeout expires
TimeoutError == [type |-> "TimeoutError", status_code |-> 0, detail |-> << >>]

AttributeError == [type |-> "AttributeError", status_code |-> 0,
                   detail |-> <<"object has no attribute 'get'">>]

IndexError == [type |-> "IndexError", status_code |-> 0,
               detail |-> <<"list index out of range">>]

RunnerError == [type |-> "RuntimeError", status_code |-> 0,
                detail |-> <<"agent run failed">>]

NoException == [type |-> "", status_code |-> 0, detail |-> << >>]

\* str(e): starlette renders an HTTPException as "<status_code>: <detail>"
ExcStr(e) ==
    IF e.type = "HTTPException"
    THEN <<ToString(e.status_code), ": ">> \o e.detail
    ELSE e.detail

\* Variant of AdapterExcept: the cause is left out of the detail
AdapterExceptWithoutCause(e) ==
    IF e.type = "ClientError"
    THEN HTTPException(502, <<"ADK API communication error">>)
    ELSE HTTPException(500, <<"Internal server error">>)

\* adk_openai_adapter: except aiohttp.ClientError -> 502, except Exception -> 500
AdapterExcept(e) ==
    IF e.type = "ClientError"
    THEN HTTPException(502, <<"ADK API communication error: ">> \o ExcStr(e))
    ELSE HTTPException(500, <<"Internal server error: ">> \o ExcStr(e))

\* adk_agent_api: except Exception -> 500
AgentApiExcept(e) ==
    HTTPException(500, <<"Internal server error: ">> \o ExcStr(e))

-----------------------------------------------------------------------------
(* Extraction of the user message *)

\* for msg in reversed(request.messages): if msg.role == "user": ... break
RECURSIVE LastUserContent(_, _)
LastUserContent(msgs, i) ==
    IF i = 0 THEN [found |-> FALSE, content |-> ""]
    ELSE IF msgs[i].role = "user"
         THEN [found |-> TRUE, content |-> msgs[i].content]
         ELSE LastUserContent(msgs, i - 1)

\* Lines 95-105 of both create_chat_completion handlers: the exception
\* raised by the validation, or NoException with the user message
ExtractUserMessage(msgs) ==
    LET r == LastUserContent(msgs, Len(msgs))
    IN  IF msgs = << >>
        THEN [exc |-> HTTPException(400, <<"No messages provided">>),
              user_message |-> ""]
        ELSE IF ~r.found \/ r.content = ""      \* if not user_message
        THEN [exc |-> HTTPException(400, <<"No user message found">>),
              user_message |-> ""]
        ELSE [exc |-> NoException, user_message |-> r.content]

-----------------------------------------------------------------------------
(* Response extractor of adk_openai_adapter (Step 3) *)

Placeholder ==
    "I received your message but was unable to generate a response. Please try again."

\* for event in events: if event.get('type') == 'agent_response' or
\* 'content' in event: content = event.get('content', ''); if content:
\* response_text = str(content); break
RECURSIVE ScanEvents(_, _)
ScanEvents(events, i) ==
    IF i > Len(events) THEN [exc |-> NoException, text |-> ""]
    ELSE LET event == events[i]
         IN  IF ~event.obj
             THEN [exc |-> AttributeError, text |-> ""]   \* event.get on a non-dict
             ELSE IF (event.type = "agent_response" \/ event.content.k # "absent")
                     /\ Truthy(event.content)
                  THEN [exc |-> NoException, text |-> PyStr(event.content)]
                  ELSE ScanEvents(events, i + 1)

\* Variant of StateFallback: a state that is a plain string is not used
StateFallbackContentOnly(state) ==
    CASE state.k = "content" -> state.s
      [] OTHER -> ""

\* state = response_data.get('state', {}); dict with 'content' -> str of it;
\* str -> the string itself
StateFallback(state) ==
    CASE state.k = "content" -> state.s
      [] state.k = "str" -> state.s
      [] OTHER -> ""

\* Variant of ExtractResponseText: no placeholder when nothing was found
ExtractResponseTextNoPlaceholder(body) ==
    IF body.top # "object"
    THEN [exc |-> AttributeError, text |-> ""]
    ELSE LET events == IF body.hasEvents THEN body.events ELSE << >>
             scan == ScanEvents(events, 1)
         IN  IF scan.exc # NoException THEN scan
             ELSE [exc |-> NoException,
                   text |-> IF scan.text = "" THEN StateFallback(body.state)
                            ELSE scan.text]

ExtractResponseText(body) ==
    IF body.top # "object"
    THEN [exc |-> AttributeError, text |-> ""]   \* response_data.get on a list
    ELSE LET events == IF body.hasEvents THEN body.events ELSE << >>
             scan == ScanEvents(events, 1)
             fromState == IF scan.text = "" THEN StateFallback(body.state)
                          ELSE scan.text
         IN  IF scan.exc # NoException THEN scan
             ELSE [exc |-> NoException,
                   text |-> IF fromState = "" THEN Placeholder ELSE fromState]

-----------------------------------------------------------------------------
(* Response extractor of adk_agent_api *)

AgentPlaceholder ==
    "I apologize, but I was unable to generate a response. Please try again."

PartTexts == {"", "4"}      \* "" stands for a part without text

\* an ADK Event: content is None (hasContent = FALSE) or has parts
AgentEvent ==
    [hasContent : {TRUE}, parts : SeqsUpTo(PartTexts, MaxParts)]
    \cup {[hasContent |-> FALSE, parts |-> << >>]}

AgentEventLists == SeqsUpTo(AgentEvent, MaxAgentEvents)

\* "".join([part.text for part in parts if hasattr(part, 'text') and part.text])
RECURSIVE JoinParts(_, _)
JoinParts(parts, i) ==
    IF i > Len(parts) THEN ""
    ELSE parts[i] \o JoinParts(parts, i + 1)

AgentExtractResponseText(events) ==
    LET last_event == events[Len(events)]
        joined == IF events # << >> /\ last_event.hasContent
                  THEN JoinParts(last_event.parts, 1)
                  ELSE ""
    IN  IF joined = "" THEN AgentPlaceholder ELSE joined

-----------------------------------------------------------------------------
(* The answer to the caller *)

NoReply == [object |-> "", model |-> "", choices |-> << >>]

ChatCompletionResponse(model, response_text) ==
    [object |-> "chat.completion",
     model |-> model,
     choices |-> << [index |-> 0,
                     message |-> [role |-> "assistant",
                                  content |-> response_text],
                     finish_reason |-> "stop"] >>]

\* raise HTTPException(...) leaving the handler
AnswerError(e) ==
    /\ status' = e.status_code
    /\ detail' = e.detail
    /\ reply' = NoReply
    /\ pc' = "done"

\* return response.dict()
AnswerOk(response_text) ==
    /\ status' = 200
    /\ detail' = << >>
    /\ reply' = ChatCompletionResponse(request.model, response_text)
    /\ pc' = "done"

\* an entry of the call log: text is the forwarded message of a call or the
\* error body of a failed return, code the HTTP status of a return (0 when
\* no response arrived)
Call(op, sid, text, code) ==
    [op |-> op, sid |-> sid, text |-> text, code |-> code]

-----------------------------------------------------------------------------
(* Outcomes of the outbound HTTP calls of adk_openai_adapter *)

GeneratedSessionId == "openai_session_1a2b3c4d"

\* kind "status": a response with that status arrived; id is the "id"
\* key of the create-session result ("" when the key is missing)
SessionOutcomes ==
    [kind : {"status"}, code : {200}, id : {"", "srv_session"}]
    \cup [kind : {"status"}, code : {409, 500}, id : {""}]
    \cup [kind : {"client_error", "timeout"}, code : {0}, id : {""}]

ErrorTexts == {"", "session not found"}

MessageFailures ==
    [kind : {"status"}, code : {404, 500}, error_text : ErrorTexts]
    \cup [kind : {"client_error", "timeout"}, code : {0}, error_text : {""}]

\* Variant of SessionFailed: a failed create-session is tolerated
SessionFailedTolerated(code) == FALSE

\* Line 119: if resp.status != 200
SessionFailed(code) == code # 200

-----------------------------------------------------------------------------
(* ollama_proxy: model name mapping *)

\* str.lower() on the ASCII letters
LowerChar(c) ==
    CASE c = "A" -> "a" [] c = "B" -> "b" [] c = "C" -> "c" [] c = "D" -> "d"
      [] c = "E" -> "e" [] c = "F" -> "f" [] c = "G" -> "g" [] c = "H" -> "h"
      [] c = "I" -> "i" [] c = "J" -> "j" [] c = "K" -> "k" [] c = "L" -> "l"
      [] c = "M" -> "m" [] c = "N" -> "n" [] c = "O" -> "o" [] c = "P" -> "p"
      [] c = "Q" -> "q" [] c = "R" -> "r" [] c = "S" -> "s" [] c = "T" -> "t"
      [] c = "U" -> "u" [] c = "V" -> "v" [] c = "W" -> "w" [] c = "X" -> "x"
      [] c = "Y" -> "y" [] c = "Z" -> "z" [] OTHER -> c

RECURSIVE Lower(_)
Lower(str) ==
    IF str = "" THEN ""
    ELSE LowerChar(SubSeq(str, 1, 1)) \o Lower(SubSeq(str, 2, Len(str)))

\* Python's `sub in str`
Contains(str, sub) ==
    \E i \in 1..(Len(str) - Len(sub) + 1) :
        SubSeq(str, i, i + Len(sub) - 1) = sub

\* str.split("/")[-1]: what follows the last "/"
RECURSIVE AfterLastSlash(_, _)
AfterLastSlash(str, i) ==
    IF i = 0 THEN str
    ELSE IF SubSeq(str, i, i) = "/" THEN SubSeq(str, i + 1, Len(str))
         ELSE AfterLastSlash(str, i - 1)

MODEL_MAPPING ==
    [k \in {"gemini-2.0-flash", "gemini-2.0-flash-exp", "gemini-1.5-flash",
            "gemini-1.5-flash-8b", "gemini-1.5-pro", "gemini-pro",
            "gemini-pro-vision", "gemini-2.0-flash-001",
            "gemini-2.0-flash-vertex", "gemini-1.5-flash-vertex",
            "gemini-1.5-pro-vertex", "gemini-pro-vertex",
            "gpt-4o", "gpt-4o-mini", "gpt-4-turbo", "gpt-4", "gpt-3.5-turbo",
            "o1", "o1-mini",
            "claude-3-5-sonnet", "claude-3-5-haiku", "claude-3-opus",
            "claude-3-sonnet", "claude-3-haiku"} |->
       CASE k = "gemini-2.0-flash-001" -> "vertex_ai/gemini-2.0-flash-001"
         [] k = "gemini-2.0-flash-vertex" -> "vertex_ai/gemini-2.0-flash-001"
         [] k = "gemini-1.5-flash-vertex" -> "vertex_ai/gemini-1.5-flash"
         [] k = "gemini-1.5-pro-vertex" -> "vertex_ai/gemini-1.5-pro"
         [] k = "gemini-pro-vertex" -> "vertex_ai/gemini-pro"
         [] k = "claude-3-5-sonnet" -> "anthropic/claude-3-5-sonnet-20241022"
         [] k = "claude-3-5-haiku" -> "anthropic/claude-3-5-haiku-20241022"
         [] k = "claude-3-opus" -> "anthropic/claude-3-opus-20240229"
         [] k = "claude-3-sonnet" -> "anthropic/claude-3-sonnet-20240229"
         [] k = "claude-3-haiku" -> "anthropic/claude-3-haiku-20240307"
         [] k \in {"gpt-4o", "gpt-4o-mini", "gpt-4-turbo", "gpt-4",
                   "gpt-3.5-turbo", "o1", "o1-mini"} -> "openai/" \o k
         [] OTHER -> "gemini/" \o k]

DEFAULT_MODELS ==
    [p \in {"google_ai_studio", "gemini", "vertex_ai", "google_vertex_ai",
            "openai", "anthropic"} |->
       CASE p \in {"google_ai_studio", "gemini"} -> "gemini-2.0-flash"
         [] p \in {"vertex_ai", "google_vertex_ai"} -> "gemini-2.0-flash-001"
         [] p = "openai" -> "gpt-4o"
         [] OTHER -> "claude-3-5-sonnet"]

\* Variant of get_default_model: the fallback names a model that the
\* table does not hold
get_default_model_unmapped(litellm_provider) ==
    IF Lower(litellm_provider) \in DOMAIN DEFAULT_MODELS
    THEN DEFAULT_MODELS[Lower(litellm_provider)]
    ELSE "gemini-2.5-flash"

\* DEFAULT_MODELS.get(LITELLM_PROVIDER.lower(), "gemini-2.0-flash")
get_default_model(litellm_provider) ==
    IF Lower(litellm_provider) \in DOMAIN DEFAULT_MODELS
    THEN DEFAULT_MODELS[Lower(litellm_provider)]
    ELSE "gemini-2.0-flash"

Returned(id) == [raised |-> FALSE, id |-> id]

KeyError == [raised |-> TRUE, id |-> ""]

\* prefix + MODEL_MAPPING[key]; a missing key raises KeyError
MappingLookup(prefix, key) ==
    IF key \in DOMAIN MODEL_MAPPING
    THEN Returned(prefix \o MODEL_MAPPING[key])
    ELSE KeyError

\* map_model_name with LITELLM_PROVIDER made a parameter
map_model_name(ollama_model, litellm_provider) ==
    LET p == Lower(litellm_provider)
        default == get_default_model(litellm_provider)
    IN  IF ollama_model \in DOMAIN MODEL_MAPPING
        THEN Returned(MODEL_MAPPING[ollama_model])
        ELSE IF p \in {"google_ai_studio", "gemini"}
        THEN IF ~Contains(ollama_model, "gemini")
             THEN Returned("gemini/" \o default)
             ELSE Returned("gemini/" \o ollama_model)
        ELSE IF p \in {"vertex_ai", "google_vertex_ai"}
        THEN IF ~Contains(ollama_model, "gemini")
             THEN Returned("vertex_ai/" \o default)
             ELSE IF ollama_model = "gemini-2.0-flash-001"
                  THEN Returned("vertex_ai/gemini-2.0-flash-001")
                  ELSE Returned("vertex_ai/" \o ollama_model)
        ELSE IF p = "openai"
        THEN IF ~Contains(Lower(ollama_model), "gpt")
                /\ ~Contains(Lower(ollama_model), "o1")
             THEN Returned("openai/" \o default)
             ELSE Returned("openai/" \o ollama_model)
        ELSE IF p = "anthropic"
        THEN IF ~Contains(Lower(ollama_model), "claude")
             THEN MappingLookup("anthropic/", default)
             ELSE Returned("anthropic/" \o ollama_model)
        ELSE MappingLookup("", default)

-----------------------------------------------------------------------------
(* ollama_proxy: requests, backend stream and frames *)

MaxChunks == 2      \* most chunks the LiteLLM stream delivers

Providers == {"google_ai_studio", "gemini", "vertex_ai", "google_vertex_ai",
              "openai", "anthropic", "Anthropic", "ollama"}

OllamaModels == {"", "gpt-4o", "gemini-2.0-flash-001", "llama3", "gemini-exp",
                 "GPT-5", "claude-4", "adk-agent:latest"}

Endpoints == {"chat", "generate"}

OllamaRequest == [model : OllamaModels, stream : BOOLEAN]

NoRequest == [model |-> "", stream |-> FALSE]

NoKwargs == [model |-> "", stream |-> FALSE]

\* a chunk of the LiteLLM stream: choices = FALSE has no choices (or no
\* delta); content "" is a delta without content
StreamChunks == {[choices |-> FALSE, content |-> ""]}
                \cup [choices : {TRUE}, content : {"", "Hel", "lo"}]

StreamErrors == {"RateLimitError", "APIConnectionError"}

NoBackend == [chunks |-> << >>, error |-> ""]

\* the dict that is json.dumps'ed into a frame; model "" on an error frame
\* stands for the missing key
ChunkPayload(ep, model, content, done) ==
    [model |-> model,
     text_key |-> IF ep = "chat" THEN "message" ELSE "response",
     role |-> IF ep = "chat" THEN "assistant" ELSE "",
     content |-> content,
     has_error |-> FALSE, error |-> "",
     done |-> done]

\* Variant of ErrorPayload: the terminal frame does not say what failed
ErrorPayloadWithoutText(text) ==
    [model |-> "", text_key |-> "", role |-> "", content |-> "",
     has_error |-> TRUE, error |-> "",
     done |-> TRUE]

ErrorPayload(text) ==
    [model |-> "", text_key |-> "", role |-> "", content |-> "",
     has_error |-> TRUE, error |-> text,
     done |-> TRUE]

\* yield f"data: {json.dumps(chunk)}\n\n"
Frame(payload) ==
    [prefix |-> "data: ", payload |-> payload, terminator |-> "\n\n"]

\* Variant of ShouldRelay: a chunk is relayed whatever its delta holds
ShouldRelayAlways(chunk) == TRUE

\* if chunk.choices and chunk.choices[0].delta: ... if hasattr(delta,
\* 'content') and delta.content
ShouldRelay(chunk) == chunk.choices /\ chunk.content # ""

\* the frames yielded for one chunk of the backend stream
ChunkFrames(ep, model, chunk) ==
    IF ShouldRelay(chunk)
    THEN << Frame(ChunkPayload(ep, AfterLastSlash(model, Len(model)),
                               chunk.content, FALSE)) >>
    ELSE << >>

\* the final chunk sent when the backend stream is exhausted
FinalFrame(ep, model) ==
    Frame(ChunkPayload(ep, AfterLastSlash(model, Len(model)), "", TRUE))

\* the chunk sent by `except Exception`
ErrorFrame(text) == Frame(ErrorPayload(text))

\* one line of the response body as a line reader returns it: the text
\* before the JSON document and the document, or a line holding only "\n"
BodyLine(frame) == [prefix |-> frame.prefix, payload |-> frame.payload,
                    blank |-> FALSE]

BlankLine == [prefix |-> "", payload |-> ErrorPayload(""), blank |-> TRUE]

\* the lines of one frame: its text up to the first "\n", then one line
\* for every further "\n" of the terminator
FrameLines(frame) ==
    << BodyLine(frame) >>
    \o [i \in 1..(Len(frame.terminator) - 1) |-> BlankLine]

RECURSIVE BodyLines(_)
BodyLines(fs) ==
    IF fs = << >> THEN << >>
    ELSE FrameLines(Head(fs)) \o BodyLines(Tail(fs))

\* json.loads(line.decode()) returns a dict only when the whole line is
\* the JSON document; otherwise it raises JSONDecodeError
JsonDecodes(line) == ~line.blank /\ line.prefix = ""

\* test_streaming_chat's loop over response.content: the contents it
\* prints and whether it saw chunk_data.get('done')
RECURSIVE test_streaming_chat(_, _)
test_streaming_chat(lines, printed) ==
    IF lines = << >> THEN [printed |-> printed, done |-> FALSE]
    ELSE LET line == Head(lines)
         IN  IF ~JsonDecodes(line)
             THEN test_streaming_chat(Tail(lines), printed)
             ELSE LET content == IF line.payload.text_key = "message"
                                 THEN line.payload.content ELSE ""
                      out == IF content # "" THEN Append(printed, content)
                             ELSE printed
                  IN  IF line.payload.done
                      THEN [printed |-> out, done |-> TRUE]
                      ELSE test_streaming_chat(Tail(lines), out)

NoProxyReply == [model |-> "", text_key |-> "", content |-> "", done |-> FALSE]

\* the proxy is not part of the behaviour
ProxyIdle ==
    /\ provider = ""
    /\ endpoint = ""
    /\ ollama_request = NoRequest
    /\ kwargs = NoKwargs
    /\ relay_pc = "idle"
    /\ backend = NoBackend
    /\ frames = << >>
    /\ proxy_status = 0
    /\ proxy_reply = NoProxyReply

-----------------------------------------------------------------------------
(* The programs beside the chat handlers, at rest *)

NoFlags == [create |-> FALSE, delete |-> FALSE, dry_run |-> FALSE,
            project_id |-> FALSE, location |-> FALSE, bucket |-> FALSE,
            resource_id |-> FALSE, wheel_exists |-> FALSE]

\* DeployConfig.DEFAULT_CONFIG as the class body sets it: the deployment
\* dict, and the "version" key of the wheel dict ("" = no such key)
ClassDefaults ==
    [deployment |-> [enable_tracing |-> FALSE, memory |-> "2Gi", cpu |-> "2"],
     wheel_version |-> "",
     environment |-> "production"]

NoPullBody == [received |-> FALSE, json |-> FALSE, object |-> FALSE,
               has_name |-> FALSE, name |-> "", stream |-> "absent"]

NoPullAnswer == [status |-> 0, detail |-> "", body_status |-> ""]

CallbackIdle ==
    /\ model_cache = << >>
    /\ responses = << >>
    /\ cb_log = << >>

DeployIdle ==
    /\ FLAGS = NoFlags
    /\ deploy_pc = "idle"
    /\ gcp_calls = << >>

ConfigIdle ==
    /\ DEFAULT_CONFIG = ClassDefaults
    /\ built = << >>

ScriptIdle ==
    /\ checks = << >>
    /\ script_pc = "idle"
    /\ all_tests_passed = TRUE
    /\ exit_code = -1

RunnerIdle ==
    /\ processes = << >>
    /\ runner_pc = "idle"
    /\ stop_runs = 0
    /\ runner_path = ""

TesterIdle ==
    /\ test_results = << >>
    /\ tester_pc = "idle"
    /\ tester_exit = -1

PullIdle ==
    /\ pull_body = NoPullBody
    /\ pull_answer = NoPullAnswer

PeripheralIdle ==
    /\ CallbackIdle
    /\ DeployIdle
    /\ ConfigIdle
    /\ ScriptIdle
    /\ RunnerIdle
    /\ TesterIdle
    /\ PullIdle

\* none of the chat handlers and of the proxy's endpoints is running
ServiceIdle ==
    /\ handler = "none"
    /\ request = [model |-> "", messages |-> << >>]
    /\ pc = "idle"
    /\ session_id = ""
    /\ calls = << >>
    /\ response_data = NoBody
    /\ agent_events = << >>
    /\ status = 0
    /\ detail = << >>
    /\ reply = NoReply
    /\ ProxyIdle
    /\ tasks = << >>

-----------------------------------------------------------------------------
(* Initial state: one request arrives at one of the handlers *)

Init ==
    /\ handler \in Handlers
    /\ request \in ChatCompletionRequest
    /\ pc = "start"
    /\ session_id = ""
    /\ calls = << >>
    /\ response_data = NoBody
    /\ agent_events = << >>
    /\ status = 0
    /\ detail = << >>
    /\ reply = NoReply
    /\ ProxyIdle
    /\ tasks = << >>
    /\ PeripheralIdle

-----------------------------------------------------------------------------
(* adk_openai_adapter.create_chat_completion *)

\* Variant of AdapterReceive: the message is posted together with the
\* create-session call instead of after its response
AdapterReceiveConcurrent ==
    /\ handler = "adk_openai_adapter"
    /\ pc = "start"
    /\ LET v == ExtractUserMessage(request.messages)
       IN  IF v.exc # NoException
           THEN /\ AnswerError(AdapterExcept(v.exc))
                /\ UNCHANGED << session_id, calls >>
           ELSE /\ session_id' = GeneratedSessionId
                /\ calls' = calls \o
                       << Call("create_session", GeneratedSessionId, "", 0),
                          Call("send_message", GeneratedSessionId,
                               v.user_message, 0),
                          Call("create_session_return", GeneratedSessionId,
                               "", 200) >>
                /\ pc' = "sending"
                /\ UNCHANGED << status, detail, reply >>
    /\ UNCHANGED proxyVars
    /\ UNCHANGED tasks
    /\ UNCHANGED peripheralVars
    /\ UNCHANGED << handler, request, response_data, agent_events >>

\* Lines 91-118: validate, generate the session id, post the create-session
AdapterReceive ==
    /\ handler = "adk_openai_adapter"
    /\ pc = "start"
    /\ LET v == ExtractUserMessage(request.messages)
       IN  IF v.exc # NoException
           THEN /\ AnswerError(AdapterExcept(v.exc))
                /\ UNCHANGED << session_id, calls >>
           ELSE /\ session_id' = GeneratedSessionId
                /\ calls' = Append(calls,
                                   Call("create_session", GeneratedSessionId, "", 0))
                /\ pc' = "creating"
                /\ UNCHANGED << status, detail, reply >>
    /\ UNCHANGED proxyVars
    /\ UNCHANGED tasks
    /\ UNCHANGED peripheralVars
    /\ UNCHANGED << handler, request, response_data, agent_events >>

\* Lines 118-135: the create-session call returns; on 200 the message is posted
AdapterSessionResponse ==
    /\ handler = "adk_openai_adapter"
    /\ pc = "creating"
    /\ \E o \in SessionOutcomes :
         LET returned == Append(calls, Call("create_session_return",
                                            session_id, "", o.code))
             actual_session_id == IF o.id = "" THEN session_id ELSE o.id
             user_message == ExtractUserMessage(request.messages).user_message
         IN  CASE o.kind = "client_error" ->
                    /\ AnswerError(AdapterExcept(ClientError))
                    /\ calls' = returned
               [] o.kind = "timeout" ->
                    /\ AnswerError(AdapterExcept(TimeoutError))
                    /\ calls' = returned
               [] o.kind = "status" /\ SessionFailed(o.code) ->
                    /\ AnswerError(AdapterExcept(
                           HTTPException(500, <<"Failed to create ADK session">>)))
                    /\ calls' = returned
               [] OTHER ->
                    /\ calls' = Append(returned,
                                       Call("send_message", actual_session_id,
                                            user_message, 0))
                    /\ pc' = "sending"
                    /\ UNCHANGED << status, detail, reply >>
    /\ UNCHANGED proxyVars
    /\ UNCHANGED tasks
    /\ UNCHANGED peripheralVars
    /\ UNCHANGED << handler, request, session_id, response_data, agent_events >>

\* Variant of AdapterMessageFailure: a failed message-send is posted once more
AdapterMessageFailureRetry ==
    /\ handler = "adk_openai_adapter"
    /\ pc = "sending"
    /\ \E o \in MessageFailures :
         IF Len(SelectSeq(calls, LAMBDA c : c.op = "send_message")) < 2
         THEN /\ calls' = calls \o
                     << Call("send_message_return", calls[Len(calls)].sid,
                             o.error_text, o.code),
                        Call("send_message", calls[Len(calls)].sid,
                             calls[Len(calls)].text, 0) >>
              /\ UNCHANGED << pc, status, detail, reply >>
         ELSE /\ calls' = Append(calls, Call("send_message_return",
                                             calls[Len(calls)].sid,
                                             o.error_text, o.code))
              /\ AnswerError(AdapterExcept(ClientError))
    /\ UNCHANGED proxyVars
    /\ UNCHANGED tasks
    /\ UNCHANGED peripheralVars
    /\ UNCHANGED << handler, request, session_id, response_data, agent_events >>

\* Lines 135-139 and 188-193: the message-send fails
AdapterMessageFailure ==
    /\ handler = "adk_openai_adapter"
    /\ pc = "sending"
    /\ \E o \in MessageFailures :
         /\ calls' = Append(calls, Call("send_message_return",
                                        calls[Len(calls)].sid,
                                        o.error_text, o.code))
         /\ CASE o.kind = "client_error" -> AnswerError(AdapterExcept(ClientError))
              [] o.kind = "timeout" -> AnswerError(AdapterExcept(TimeoutError))
              [] OTHER -> AnswerError(AdapterExcept(
                              HTTPException(500, <<"ADK API error: ", o.error_text>>)))
    /\ UNCHANGED proxyVars
    /\ UNCHANGED tasks
    /\ UNCHANGED peripheralVars
    /\ UNCHANGED << handler, request, session_id, response_data, agent_events >>

\* Lines 141-186: the message-send returns 200 with a JSON body
AdapterMessageResponse ==
    /\ handler = "adk_openai_adapter"
    /\ pc = "sending"
    /\ \E body \in ResponseBodies :
         LET r == ExtractResponseText(body)
         IN  /\ response_data' = body
             /\ calls' = Append(calls, Call("send_message_return",
                                            calls[Len(calls)].sid, "", 200))
             /\ IF r.exc # NoException
                THEN AnswerError(AdapterExcept(r.exc))
                ELSE AnswerOk(r.text)
    /\ UNCHANGED proxyVars
    /\ UNCHANGED tasks
    /\ UNCHANGED peripheralVars
    /\ UNCHANGED << handler, request, session_id, agent_events >>

-----------------------------------------------------------------------------
(* adk_agent_api.create_chat_completion *)

AgentSessionId == "session_1"

\* Lines 83-105: validate and create the in-memory session
AgentApiReceive ==
    /\ handler = "adk_agent_api"
    /\ pc = "start"
    /\ LET v == ExtractUserMessage(request.messages)
       IN  IF v.exc # NoException
           THEN /\ AnswerError(AgentApiExcept(v.exc))
                /\ UNCHANGED << session_id, calls >>
           ELSE /\ session_id' = AgentSessionId
                /\ calls' = Append(calls, Call("create_session", AgentSessionId, "", 0))
                /\ pc' = "running"
                /\ UNCHANGED << status, detail, reply >>
    /\ UNCHANGED proxyVars
    /\ UNCHANGED tasks
    /\ UNCHANGED peripheralVars
    /\ UNCHANGED << handler, request, response_data, agent_events >>

\* Lines 107-166: run the agent on the user message and answer
AgentApiRun ==
    /\ handler = "adk_agent_api"
    /\ pc = "running"
    /\ LET user_message == ExtractUserMessage(request.messages).user_message
       IN  calls' = Append(calls, Call("runner.run", session_id, user_message, 0))
    /\ \/ \E events \in AgentEventLists :
            /\ agent_events' = events
            /\ AnswerOk(AgentExtractResponseText(events))
       \/ /\ AnswerError(AgentApiExcept(RunnerError))
          /\ UNCHANGED agent_events
    /\ UNCHANGED proxyVars
    /\ UNCHANGED tasks
    /\ UNCHANGED peripheralVars
    /\ UNCHANGED << handler, request, session_id, response_data >>

-----------------------------------------------------------------------------
(* main.chat_completions *)

FinalEvents == {[final |-> FALSE, text |-> ""]}
               \cup [final : {TRUE}, text : {"", "4"}]

\* Lines 33-38: take request.messages[-1].content and call run_sync
MainReceive ==
    /\ handler = "main"
    /\ pc = "start"
    /\ IF request.messages = << >>
       THEN \* IndexError, no except clause: the framework answers 500
            /\ AnswerError(HTTPException(500, <<"Internal Server Error">>))
            /\ UNCHANGED calls
       ELSE /\ calls' = Append(calls,
                 Call("run_sync", "",
                      request.messages[Len(request.messages)].content, 0))
            /\ pc' = "running"
            /\ UNCHANGED << status, detail, reply >>
    /\ UNCHANGED proxyVars
    /\ UNCHANGED tasks
    /\ UNCHANGED peripheralVars
    /\ UNCHANGED << handler, request, session_id, response_data, agent_events >>

\* Lines 40-67: wrap the text of the final event
MainRespond ==
    /\ handler = "main"
    /\ pc = "running"
    /\ \E e \in FinalEvents :
         AnswerOk(IF e.final THEN e.text ELSE "")
    /\ UNCHANGED proxyVars
    /\ UNCHANGED tasks
    /\ UNCHANGED peripheralVars
    /\ UNCHANGED << handler, request, session_id, calls, response_data,
                    agent_events >>

-----------------------------------------------------------------------------
(* ollama_proxy: chat_completion, generate_completion and their generators *)

ProxyInit ==
    /\ handler = "ollama_proxy"
    /\ request = [model |-> "", messages |-> << >>]
    /\ pc = "idle"
    /\ session_id = ""
    /\ calls = << >>
    /\ response_data = NoBody
    /\ agent_events = << >>
    /\ status = 0
    /\ detail = << >>
    /\ reply = NoReply
    /\ provider \in Providers
    /\ endpoint \in Endpoints
    /\ ollama_request \in OllamaRequest
    /\ kwargs = NoKwargs
    /\ relay_pc = "start"
    /\ backend = NoBackend
    /\ frames = << >>
    /\ proxy_status = 0
    /\ proxy_reply = NoProxyReply
    /\ tasks = << >>
    /\ PeripheralIdle

\* Lines 258-283 / 347-370: map the model, prepare kwargs, and either
\* return the StreamingResponse or go on to the completion call
ProxyReceive ==
    /\ relay_pc = "start"
    /\ LET m == map_model_name(ollama_request.model, provider)
       IN  IF m.raised
           THEN /\ proxy_status' = 500
                /\ relay_pc' = "done"
                /\ UNCHANGED kwargs
           ELSE /\ kwargs' = [model |-> m.id, stream |-> ollama_request.stream]
                /\ IF ollama_request.stream
                   THEN proxy_status' = 200 /\ relay_pc' = "calling"
                   ELSE proxy_status' = 0 /\ relay_pc' = "completing"
    /\ UNCHANGED << provider, endpoint, ollama_request, backend, frames,
                    proxy_reply >>
    /\ UNCHANGED adapterVars
    /\ UNCHANGED tasks
    /\ UNCHANGED peripheralVars

\* Lines 285-302 / 372-386: the non-streaming completion returns or raises
ProxyCompletion ==
    /\ relay_pc = "completing"
    /\ \/ \E content \in {"", "Hello"} :
            /\ proxy_status' = 200
            /\ proxy_reply' =
                 [model |-> ollama_request.model,
                  text_key |-> IF endpoint = "chat" THEN "message"
                               ELSE "response",
                  content |-> content,
                  done |-> TRUE]
            /\ UNCHANGED backend
       \/ \E e \in StreamErrors :
            /\ proxy_status' = 500
            /\ backend' = [backend EXCEPT !.error = e]
            /\ UNCHANGED proxy_reply
    /\ relay_pc' = "done"
    /\ UNCHANGED << provider, endpoint, ollama_request, kwargs, frames >>
    /\ UNCHANGED adapterVars
    /\ UNCHANGED tasks
    /\ UNCHANGED peripheralVars

\* Line 307 / 391: litellm.acompletion returns the stream
BackendOpens ==
    /\ relay_pc = "calling"
    /\ relay_pc' = "iterating"
    /\ UNCHANGED << provider, endpoint, ollama_request, kwargs, backend,
                    frames, proxy_status, proxy_reply >>
    /\ UNCHANGED adapterVars
    /\ UNCHANGED tasks
    /\ UNCHANGED peripheralVars

\* Line 309 / 393: the stream delivers its next chunk
BackendChunk ==
    /\ relay_pc = "iterating"
    /\ Len(backend.chunks) < MaxChunks
    /\ \E c \in StreamChunks :
         backend' = [backend EXCEPT !.chunks = Append(@, c)]
    /\ relay_pc' = "got_chunk"
    /\ UNCHANGED << provider, endpoint, ollama_request, kwargs, frames,
                    proxy_status, proxy_reply >>
    /\ UNCHANGED adapterVars
    /\ UNCHANGED tasks
    /\ UNCHANGED peripheralVars

\* Line 309 / 393: the stream is exhausted
BackendCompletes ==
    /\ relay_pc = "iterating"
    /\ relay_pc' = "got_end"
    /\ UNCHANGED << provider, endpoint, ollama_request, kwargs, backend,
                    frames, proxy_status, proxy_reply >>
    /\ UNCHANGED adapterVars
    /\ UNCHANGED tasks
    /\ UNCHANGED peripheralVars

\* Lines 307-309 / 391-393: acompletion or the iteration raises
BackendRaises ==
    /\ relay_pc \in {"calling", "iterating"}
    /\ \E e \in StreamErrors : backend' = [backend EXCEPT !.error = e]
    /\ relay_pc' = "got_error"
    /\ UNCHANGED << provider, endpoint, ollama_request, kwargs, frames,
                    proxy_status, proxy_reply >>
    /\ UNCHANGED adapterVars
    /\ UNCHANGED tasks
    /\ UNCHANGED peripheralVars

\* Lines 310-322 / 394-403: re-frame the chunk just received
RelayChunk ==
    /\ relay_pc = "got_chunk"
    /\ frames' = frames \o ChunkFrames(endpoint, kwargs.model,
                                       backend.chunks[Len(backend.chunks)])
    /\ relay_pc' = "iterating"
    /\ UNCHANGED << provider, endpoint, ollama_request, kwargs, backend,
                    proxy_status, proxy_reply >>
    /\ UNCHANGED adapterVars
    /\ UNCHANGED tasks
    /\ UNCHANGED peripheralVars

\* Lines 324-334 / 405-412: send the final chunk
RelayFinal ==
    /\ relay_pc = "got_end"
    /\ frames' = Append(frames, FinalFrame(endpoint, kwargs.model))
    /\ relay_pc' = "closed"
    /\ UNCHANGED << provider, endpoint, ollama_request, kwargs, backend,
                    proxy_status, proxy_reply >>
    /\ UNCHANGED adapterVars
    /\ UNCHANGED tasks
    /\ UNCHANGED peripheralVars

\* Variant of RelayError: the exception ends the generator and nothing
\* is sent
RelayErrorSilent ==
    /\ relay_pc = "got_error"
    /\ relay_pc' = "closed"
    /\ UNCHANGED << provider, endpoint, ollama_request, kwargs, backend,
                    frames, proxy_status, proxy_reply >>
    /\ UNCHANGED adapterVars
    /\ UNCHANGED tasks
    /\ UNCHANGED peripheralVars

\* Lines 336-342 / 414-420: send the error chunk
RelayError ==
    /\ relay_pc = "got_error"
    /\ frames' = Append(frames, ErrorFrame(backend.error))
    /\ relay_pc' = "closed"
    /\ UNCHANGED << provider, endpoint, ollama_request, kwargs, backend,
                    proxy_status, proxy_reply >>
    /\ UNCHANGED adapterVars
    /\ UNCHANGED tasks
    /\ UNCHANGED peripheralVars

ProxyNext ==
    \/ ProxyReceive
    \/ ProxyCompletion
    \/ BackendOpens
    \/ BackendChunk
    \/ BackendCompletes
    \/ BackendRaises
    \/ RelayChunk
    \/ RelayFinal
    \/ RelayError

ProxySpec == ProxyInit /\ [][ProxyNext]_vars

\* the generator is resumed whenever it can run: the event loop schedules
\* it and the StreamingResponse keeps pulling frames
ProxyFairSpec ==
    /\ ProxySpec
    /\ WF_vars(RelayChunk)
    /\ WF_vars(RelayFinal)
    /\ WF_vars(RelayError)

-----------------------------------------------------------------------------
(* adk_openai_adapter: several requests in flight on one event loop *)

MaxTasks == 2       \* requests handled concurrently

TaskIds == 1..MaxTasks

ConcRequests ==
    {[model |-> "gpt-4o",
      messages |-> << [role |-> "user", content |-> "2+2?"] >>],
     [model |-> "adk-data-science-agent",
      messages |-> << [role |-> "user", content |-> "hi"] >>],
     [model |-> "gpt-4o",
      messages |-> << [role |-> "assistant", content |-> "hi"] >>]}

NoOutcome == [kind |-> "none", code |-> 0, id |-> "", error_text |-> "",
              body |-> NoBody]

ConcSessionOutcomes ==
    {[kind |-> "status", code |-> 200, id |-> "", error_text |-> "",
      body |-> NoBody],
     [kind |-> "status", code |-> 200, id |-> "srv_session", error_text |-> "",
      body |-> NoBody],
     [kind |-> "status", code |-> 500, id |-> "", error_text |-> "",
      body |-> NoBody]}

ConcBodies ==
    {[top |-> "object", hasEvents |-> TRUE,
      events |-> << [obj |-> TRUE, type |-> "", content |-> JStr(t)] >>,
      state |-> JAbsent, response |-> JAbsent] : t \in {"a", "b"}}
    \cup {[top |-> "object", hasEvents |-> FALSE, events |-> << >>,
           state |-> JStr("S"), response |-> JAbsent]}

ConcMessageOutcomes ==
    {[kind |-> "status", code |-> 200, id |-> "", error_text |-> "",
      body |-> b] : b \in ConcBodies}
    \cup {[kind |-> "status", code |-> 404, id |-> "",
           error_text |-> "session not found", body |-> NoBody],
          [kind |-> "client_error", code |-> 0, id |-> "", error_text |-> "",
           body |-> NoBody]}

\* f"openai_session_{uuid.uuid4().hex[:8]}": every call draws its own
TaskSessionId(t) == "openai_session_0000000" \o ToString(t)

\* the answer of a request that raised / that returned
HttpError(e) == [status |-> e.status_code, detail |-> e.detail,
                 reply |-> NoReply]

HttpOk(model, response_text) ==
    [status |-> 200, detail |-> << >>,
     reply |-> ChatCompletionResponse(model, response_text)]

NoAnswer == [status |-> 0, detail |-> << >>, reply |-> NoReply]

NewTask(r) ==
    [request |-> r, pc |-> "start",
     user_message |-> "", session_id |-> "", actual_session_id |-> "",
     response_data |-> NoBody,
     calls |-> << >>, session_outcome |-> NoOutcome,
     message_outcome |-> NoOutcome, answer |-> NoAnswer]

\* Variant of Locals: user_message, session_id, actual_session_id and
\* response_data are module-level names, one set for all tasks
LocalsShared(t) == 1

\* user_message, session_id, actual_session_id and response_data are
\* local variables: every call of the coroutine has its own
Locals(t) == t

\* the failure answered after a create-session outcome, NoException if
\* the handler goes on
SessionException(o) ==
    CASE o.kind = "client_error" -> ClientError
      [] o.kind = "timeout" -> TimeoutError
      [] SessionFailed(o.code) ->
             HTTPException(500, <<"Failed to create ADK session">>)
      [] OTHER -> NoException

\* the answer after a message-send outcome
MessageAnswer(model, o) ==
    CASE o.kind = "client_error" -> HttpError(AdapterExcept(ClientError))
      [] o.kind = "timeout" -> HttpError(AdapterExcept(TimeoutError))
      [] o.code # 200 ->
             HttpError(AdapterExcept(
                 HTTPException(500, <<"ADK API error: ", o.error_text>>)))
      [] OTHER ->
             LET r == ExtractResponseText(o.body)
             IN  IF r.exc # NoException THEN HttpError(AdapterExcept(r.exc))
                 ELSE HttpOk(model, r.text)

\* create_chat_completion run from start to end with nothing else on the
\* event loop: its calls and its answer
HandledAlone(r, sid, so, mo) ==
    LET v == ExtractUserMessage(r.messages)
        create == << Call("create_session", sid, "", 0),
                     Call("create_session_return", sid, "", so.code) >>
        actual == IF so.id = "" THEN sid ELSE so.id
        send == << Call("send_message", actual, v.user_message, 0),
                   Call("send_message_return", actual, mo.error_text,
                        mo.code) >>
    IN  IF v.exc # NoException
        THEN [calls |-> << >>, answer |-> HttpError(AdapterExcept(v.exc))]
        ELSE IF SessionException(so) # NoException
        THEN [calls |-> create,
              answer |-> HttpError(AdapterExcept(SessionException(so)))]
        ELSE [calls |-> create \o send,
              answer |-> MessageAnswer(r.model, mo)]

ConcInit ==
    /\ handler = "adk_openai_adapter"
    /\ request = [model |-> "gpt-4o", messages |-> << >>]
    /\ pc = "idle"
    /\ session_id = ""
    /\ calls = << >>
    /\ response_data = NoBody
    /\ agent_events = << >>
    /\ status = 0
    /\ detail = << >>
    /\ reply = NoReply
    /\ ProxyIdle
    /\ tasks \in [TaskIds -> {NewTask(r) : r \in ConcRequests}]
    /\ PeripheralIdle

\* Lines 91-118 for task t, up to the await of the create-session post
TaskReceive(t) ==
    /\ tasks[t].pc = "start"
    /\ LET v == ExtractUserMessage(tasks[t].request.messages)
       IN  IF v.exc # NoException
           THEN tasks' = [tasks EXCEPT
                            ![t].answer = HttpError(AdapterExcept(v.exc)),
                            ![t].pc = "done"]
           ELSE tasks' = [tasks EXCEPT
                            ![Locals(t)].user_message = v.user_message,
                            ![Locals(t)].session_id = TaskSessionId(t),
                            ![t].calls = Append(@, Call("create_session",
                                                        TaskSessionId(t), "", 0)),
                            ![t].pc = "creating"]
    /\ UNCHANGED adapterVars
    /\ UNCHANGED proxyVars
    /\ UNCHANGED peripheralVars

\* Lines 118-135 for task t: resumed with the create-session response, up
\* to the await of the message post
TaskSessionResponse(t) ==
    /\ tasks[t].pc = "creating"
    /\ \E o \in ConcSessionOutcomes :
         LET mine == tasks[Locals(t)]
             returned == Append(tasks[t].calls,
                                Call("create_session_return",
                                     mine.session_id, "", o.code))
             actual_session_id == IF o.id = "" THEN mine.session_id ELSE o.id
         IN  IF SessionException(o) # NoException
             THEN tasks' = [tasks EXCEPT
                              ![t].session_outcome = o,
                              ![t].calls = returned,
                              ![t].answer = HttpError(AdapterExcept(
                                                SessionException(o))),
                              ![t].pc = "done"]
             ELSE tasks' = [tasks EXCEPT
                              ![t].session_outcome = o,
                              ![Locals(t)].actual_session_id = actual_session_id,
                              ![t].calls = Append(returned,
                                  Call("send_message", actual_session_id,
                                       mine.user_message, 0)),
                              ![t].pc = "sending"]
    /\ UNCHANGED adapterVars
    /\ UNCHANGED proxyVars
    /\ UNCHANGED peripheralVars

\* Lines 135-193 for task t: resumed with the message-send response
TaskMessageResponse(t) ==
    /\ tasks[t].pc = "sending"
    /\ \E o \in ConcMessageOutcomes :
         tasks' = [tasks EXCEPT
                     ![t].message_outcome = o,
                     ![Locals(t)].response_data = o.body,
                     ![t].calls = Append(@, Call("send_message_return",
                                     tasks[Locals(t)].actual_session_id,
                                     o.error_text, o.code)),
                     ![t].answer = MessageAnswer(tasks[t].request.model, o),
                     ![t].pc = "done"]
    /\ UNCHANGED adapterVars
    /\ UNCHANGED proxyVars
    /\ UNCHANGED peripheralVars

ConcNext ==
    \E t \in TaskIds :
        \/ TaskReceive(t)
        \/ TaskSessionResponse(t)
        \/ TaskMessageResponse(t)

ConcSpec == ConcInit /\ [][ConcNext]_vars

-----------------------------------------------------------------------------
(* adk_callback_handlers.OllamaCallbackHandler *)

MaxCalls == 3       \* callback calls made on the handler

CacheLimit == 100

ShortLimit == 50

OllamaSource == "Local Ollama Model"

LongText == "Please analyze the quarterly sales table and list every outlier."

\* an LlmRequest, as far as the handler reads it: contents with a role and
\* the texts of the parts
LlmRequests ==
    {[contents |-> << >>],
     [contents |-> << [role |-> "user", parts |-> << >>] >>],
     [contents |-> << [role |-> "user", parts |-> <<"hi">>],
                      [role |-> "model", parts |-> <<"4">>] >>]}
    \cup {[contents |-> << [role |-> "user", parts |-> <<t>>] >>] :
             t \in {"hi", "2+2?", LongText}}

\* an LlmResponse as the model returns it: whether content has parts, and
\* the text of the first part
FreshResponses ==
    {[parts |-> TRUE, text |-> "[INST] 4"], [parts |-> FALSE, text |-> ""]}

\* str.endswith
EndsWith(str, suffix) ==
    /\ Len(suffix) <= Len(str)
    /\ SubSeq(str, Len(str) - Len(suffix) + 1, Len(str)) = suffix

\* str.replace(sub, "")
RECURSIVE RemoveAll(_, _)
RemoveAll(str, sub) ==
    IF Len(str) < Len(sub) THEN str
    ELSE IF SubSeq(str, 1, Len(sub)) = sub
         THEN RemoveAll(SubSeq(str, Len(sub) + 1, Len(str)), sub)
         ELSE SubSeq(str, 1, 1) \o RemoveAll(SubSeq(str, 2, Len(str)), sub)

Whitespace == {" ", "\n", "\t"}

\* str.strip()
RECURSIVE Strip(_)
Strip(str) ==
    IF str = "" THEN ""
    ELSE IF SubSeq(str, 1, 1) \in Whitespace
         THEN Strip(SubSeq(str, 2, Len(str)))
         ELSE IF SubSeq(str, Len(str), Len(str)) \in Whitespace
              THEN Strip(SubSeq(str, 1, Len(str) - 1))
              ELSE str

\* Lines 260-265
_extract_user_message(llm_request) ==
    LET contents == llm_request.contents
    IN  IF contents # << >> /\ contents[Len(contents)].role = "user"
           /\ contents[Len(contents)].parts # << >>
        THEN contents[Len(contents)].parts[1]
        ELSE ""

\* str(hash(user_message)); distinct messages are taken to have distinct
\* hashes
MessageHash(user_message) == user_message

\* Lines 290-295; 0 stands for None
_check_cache(cache, user_message) ==
    IF Len(user_message) < ShortLimit
       /\ MessageHash(user_message) \in DOMAIN cache
    THEN cache[MessageHash(user_message)]
    ELSE 0

\* Variant of _cache_response: the entry count is not looked at
_cache_response_unbounded(cache, user_message, id) ==
    IF Len(user_message) < ShortLimit
    THEN [k \in DOMAIN cache \cup {MessageHash(user_message)} |->
             IF k = MessageHash(user_message) THEN id ELSE cache[k]]
    ELSE cache

\* Lines 297-302
_cache_response(cache, user_message, id) ==
    IF Len(user_message) < ShortLimit
       /\ Cardinality(DOMAIN cache) < CacheLimit
    THEN [k \in DOMAIN cache \cup {MessageHash(user_message)} |->
             IF k = MessageHash(user_message) THEN id ELSE cache[k]]
    ELSE cache

\* Lines 304-316
_clean_ollama_artifacts(r) ==
    IF r.parts /\ r.text # ""
    THEN [r EXCEPT !.text =
            Strip(RemoveAll(RemoveAll(RemoveAll(RemoveAll(@,
                "[INST]"), "[/INST]"), "<<SYS>>"), "<</SYS>>"))]
    ELSE r

\* Lines 318-323 (and 159-164)
_add_source_attribution(r, source) ==
    IF r.parts /\ r.text # "" /\ ~EndsWith(r.text, "_via " \o source \o "_")
    THEN [r EXCEPT !.text = @ \o "\n\n_Response via " \o source \o "_"]
    ELSE r

\* the cache after n earlier short queries "q1" .. "qn" were answered
FilledCache(n) ==
    [k \in {"q" \o ToString(i) : i \in 1..n} |->
        CHOOSE i \in 1..n : k = "q" \o ToString(i)]

FilledResponses(n) ==
    [i \in 1..n |-> [parts |-> TRUE,
                     text |-> "4\n\n_Response via Local Ollama Model_"]]

CallbackInit ==
    /\ ServiceIdle
    /\ DeployIdle /\ ConfigIdle /\ ScriptIdle /\ RunnerIdle /\ TesterIdle
    /\ PullIdle
    /\ \E n \in {0, CacheLimit - 1} :
         /\ model_cache = FilledCache(n)
         /\ responses = FilledResponses(n)
    /\ cb_log = << >>

\* the response objects the calls so far have returned or been given
KnownResponses == {cb_log[i].response : i \in 1..Len(cb_log)} \ {0}

\* Lines 197-228
BeforeModelCallback ==
    /\ Len(cb_log) < MaxCalls
    /\ \E llm_request \in LlmRequests :
         LET user_message == _extract_user_message(llm_request)
             cached_response == _check_cache(model_cache, user_message)
         IN  cb_log' = Append(cb_log,
                 [op |-> "before", llm_request |-> llm_request,
                  response |-> cached_response, stored |-> FALSE])
    /\ UNCHANGED << model_cache, responses >>
    /\ UNCHANGED << serviceVars, deployVars, configVars, scriptVars,
                    runnerVars, testerVars, pullVars >>

\* lines 245-258 applied to the response object id
AfterModelCallbackOn(llm_request, id, heap) ==
    LET attributed == _add_source_attribution(
                          _clean_ollama_artifacts(heap[id]), OllamaSource)
        user_message == _extract_user_message(llm_request)
        cache == _cache_response(model_cache, user_message, id)
    IN  /\ responses' = [heap EXCEPT ![id] = attributed]
        /\ model_cache' = cache
        /\ cb_log' = Append(cb_log,
               [op |-> "after", llm_request |-> llm_request,
                response |-> id, stored |-> cache # model_cache])

\* Lines 230-258, called with the response the model has just produced
AfterModelCallback ==
    /\ Len(cb_log) < MaxCalls
    /\ \E llm_request \in LlmRequests, r \in FreshResponses :
         AfterModelCallbackOn(llm_request, Len(responses) + 1,
                              Append(responses, r))
    /\ UNCHANGED << serviceVars, deployVars, configVars, scriptVars,
                    runnerVars, testerVars, pullVars >>

\* Lines 230-258, called with a response that an earlier call returned or
\* was given
AfterModelCallbackAgain ==
    /\ Len(cb_log) < MaxCalls
    /\ \E llm_request \in LlmRequests, id \in KnownResponses :
         AfterModelCallbackOn(llm_request, id, responses)
    /\ UNCHANGED << serviceVars, deployVars, configVars, scriptVars,
                    runnerVars, testerVars, pullVars >>

CallbackNext ==
    \/ BeforeModelCallback
    \/ AfterModelCallback
    \/ AfterModelCallbackAgain

CallbackSpec == CallbackInit /\ [][CallbackNext]_vars

-----------------------------------------------------------------------------
(* deployment/deploy.py *)

\* project_id, location, bucket and resource_id say whether the value main
\* ends up with (flag or environment variable) is non-empty; create and
\* delete are mutually exclusive flags (line 45)
DeployFlags ==
    {f \in [create : BOOLEAN, delete : BOOLEAN, dry_run : BOOLEAN,
            project_id : BOOLEAN, location : BOOLEAN, bucket : BOOLEAN,
            resource_id : BOOLEAN, wheel_exists : BOOLEAN] :
        ~(f.create /\ f.delete)}

\* what storage_client.lookup_bucket / create_bucket do
BucketOutcomes == {"exists", "created", "Forbidden", "Conflict", "ClientError"}

\* Variant of setup_staging_bucket: the bucket is looked up in a dry run too
setup_staging_bucket_always(dry_run, outcome) ==
    [calls |-> CASE outcome = "exists" ->
                      <<"storage.Client", "lookup_bucket">>
                 [] outcome = "created" ->
                      <<"storage.Client", "lookup_bucket",
                        "create_bucket", "bucket.patch">>
                 [] OTHER ->
                      <<"storage.Client", "lookup_bucket", "create_bucket">>,
     raised |-> outcome \in {"Forbidden", "ClientError"}]

\* Lines 52-135: the GCP calls made and whether an exception leaves
setup_staging_bucket(dry_run, outcome) ==
    IF dry_run
    THEN [calls |-> << >>, raised |-> FALSE]
    ELSE [calls |-> CASE outcome = "exists" ->
                           <<"storage.Client", "lookup_bucket">>
                      [] outcome = "created" ->
                           <<"storage.Client", "lookup_bucket",
                             "create_bucket", "bucket.patch">>
                      [] OTHER ->
                           <<"storage.Client", "lookup_bucket",
                             "create_bucket">>,
          raised |-> outcome \in {"Forbidden", "ClientError"}]

\* Lines 250-308: the three names are non-empty when it is called
validate_configuration(f) ==
    f.project_id /\ f.location /\ f.bucket /\ f.wheel_exists

DeployInit ==
    /\ ServiceIdle
    /\ CallbackIdle /\ ConfigIdle /\ ScriptIdle /\ RunnerIdle /\ TesterIdle
    /\ PullIdle
    /\ FLAGS \in DeployFlags
    /\ deploy_pc = "main"
    /\ gcp_calls = << >>

\* Lines 311-398: input validation and validate_configuration
DeployValidate ==
    /\ deploy_pc = "main"
    /\ deploy_pc' =
         IF \/ ~FLAGS.project_id \/ ~FLAGS.location \/ ~FLAGS.bucket
            \/ (~FLAGS.create /\ ~FLAGS.delete)
            \/ (FLAGS.delete /\ ~FLAGS.resource_id)
         THEN "returned_input_error"
         ELSE IF ~validate_configuration(FLAGS) /\ ~FLAGS.dry_run
              THEN "returned_config_invalid"
              ELSE "bucket"
    /\ UNCHANGED << FLAGS, gcp_calls >>
    /\ UNCHANGED << serviceVars, callbackVars, configVars, scriptVars,
                    runnerVars, testerVars, pullVars >>

\* Lines 399-405
DeploySetupBucket ==
    /\ deploy_pc = "bucket"
    /\ IF FLAGS.create
       THEN \E outcome \in BucketOutcomes :
              LET r == setup_staging_bucket(FLAGS.dry_run, outcome)
              IN  /\ gcp_calls' = gcp_calls \o r.calls
                  /\ deploy_pc' = IF r.raised THEN "returned_error"
                                  ELSE "vertexai"
       ELSE /\ deploy_pc' = "vertexai"
            /\ UNCHANGED gcp_calls
    /\ UNCHANGED FLAGS
    /\ UNCHANGED << serviceVars, callbackVars, configVars, scriptVars,
                    runnerVars, testerVars, pullVars >>

\* Lines 407-418
DeployVertexInit ==
    /\ deploy_pc = "vertexai"
    /\ IF ~FLAGS.dry_run
       THEN /\ gcp_calls' = Append(gcp_calls, "vertexai.init")
            /\ deploy_pc' \in {"act", "returned_error"}
       ELSE /\ deploy_pc' = "act"
            /\ UNCHANGED gcp_calls
    /\ UNCHANGED FLAGS
    /\ UNCHANGED << serviceVars, callbackVars, configVars, scriptVars,
                    runnerVars, testerVars, pullVars >>

\* Lines 420-421 and 138-221: create
DeployCreate ==
    /\ deploy_pc = "act"
    /\ FLAGS.create
    /\ IF ~FLAGS.wheel_exists
       THEN /\ deploy_pc' = "returned_file_error"
            /\ UNCHANGED gcp_calls
       ELSE IF FLAGS.dry_run
       THEN /\ deploy_pc' = "returned_simulated_create"
            /\ UNCHANGED gcp_calls
       ELSE /\ gcp_calls' = Append(gcp_calls, "agent_engines.create")
            /\ deploy_pc' \in {"returned_created", "returned_error"}
    /\ UNCHANGED FLAGS
    /\ UNCHANGED << serviceVars, callbackVars, configVars, scriptVars,
                    runnerVars, testerVars, pullVars >>

\* Lines 422-423 and 224-247: delete
DeployDelete ==
    /\ deploy_pc = "act"
    /\ FLAGS.delete
    /\ IF FLAGS.dry_run
       THEN /\ deploy_pc' = "returned_simulated_delete"
            /\ UNCHANGED gcp_calls
       ELSE \/ /\ gcp_calls' = gcp_calls \o
                     <<"agent_engines.get", "remote_agent.delete">>
               /\ deploy_pc' = "returned_deleted"
            \/ /\ gcp_calls' = Append(gcp_calls, "agent_engines.get")
               /\ deploy_pc' = "returned_not_deleted"
    /\ UNCHANGED FLAGS
    /\ UNCHANGED << serviceVars, callbackVars, configVars, scriptVars,
                    runnerVars, testerVars, pullVars >>

DeployNext ==
    \/ DeployValidate
    \/ DeploySetupBucket
    \/ DeployVertexInit
    \/ DeployCreate
    \/ DeployDelete

DeploySpec == DeployInit /\ [][DeployNext]_vars

-----------------------------------------------------------------------------
(* test-ollama-proxy.py *)

\* what a request of the script meets: an HTTP status, no response at all
\* (requests.RequestException, status 0), or a 200 whose JSON body is not
\* an object, on which data.get raises AttributeError (status -200)
CheckResponses == {200, 404, 500, 0, -200}

StatusCode(response) == IF response = -200 THEN 200 ELSE response

\* Lines 12-88: the value a check function returns
CheckPasses(check, response) ==
    IF check = "adk_backend" THEN StatusCode(response) \in {200, 404}
    ELSE IF check = "health" THEN StatusCode(response) = 200
    ELSE response = 200

\* data.get / message.get on a body that is not an object (lines 32, 63)
CheckCrashes(check, response) ==
    check \in {"models", "chat"} /\ response = -200

ScriptInit ==
    /\ ServiceIdle
    /\ CallbackIdle /\ DeployIdle /\ ConfigIdle /\ RunnerIdle /\ TesterIdle
    /\ PullIdle
    /\ checks = << >>
    /\ script_pc = "adk_backend"
    /\ all_tests_passed = TRUE
    /\ exit_code = -1

\* Lines 96-101
ScriptAdkBackend ==
    /\ script_pc = "adk_backend"
    /\ \E response \in CheckResponses :
         /\ checks' = Append(checks, [check |-> "adk_backend",
                                      response |-> response])
         /\ all_tests_passed' = (all_tests_passed
                                 /\ CheckPasses("adk_backend", response))
    /\ script_pc' = "health"
    /\ UNCHANGED exit_code
    /\ UNCHANGED << serviceVars, callbackVars, deployVars, configVars,
                    runnerVars, testerVars, pullVars >>

\* Lines 104-109: a failed health check returns from main, and the
\* interpreter then exits with status 0
ScriptHealth ==
    /\ script_pc = "health"
    /\ \E response \in CheckResponses :
         /\ checks' = Append(checks, [check |-> "health",
                                      response |-> response])
         /\ IF CheckPasses("health", response)
            THEN /\ script_pc' = "models"
                 /\ UNCHANGED << all_tests_passed, exit_code >>
            ELSE /\ all_tests_passed' = FALSE
                 /\ script_pc' = "exited"
                 /\ exit_code' = 0
    /\ UNCHANGED << serviceVars, callbackVars, deployVars, configVars,
                    runnerVars, testerVars, pullVars >>

\* Lines 111-117: an exception that is no RequestException leaves main
\* and the interpreter exits with status 1
ScriptCheck(check, next) ==
    /\ script_pc = check
    /\ \E response \in CheckResponses :
         /\ checks' = Append(checks, [check |-> check, response |-> response])
         /\ IF CheckCrashes(check, response)
            THEN /\ script_pc' = "exited"
                 /\ exit_code' = 1
                 /\ UNCHANGED all_tests_passed
            ELSE /\ all_tests_passed' = (all_tests_passed
                                         /\ CheckPasses(check, response))
                 /\ script_pc' = next
                 /\ UNCHANGED exit_code
    /\ UNCHANGED << serviceVars, callbackVars, deployVars, configVars,
                    runnerVars, testerVars, pullVars >>

ScriptModels == ScriptCheck("models", "chat")

ScriptChat == ScriptCheck("chat", "report")

\* Lines 119-130
ScriptReport ==
    /\ script_pc = "report"
    /\ exit_code' = IF all_tests_passed THEN 0 ELSE 1
    /\ script_pc' = "exited"
    /\ UNCHANGED << checks, all_tests_passed >>
    /\ UNCHANGED << serviceVars, callbackVars, deployVars, configVars,
                    runnerVars, testerVars, pullVars >>

ScriptNext ==
    \/ ScriptAdkBackend
    \/ ScriptHealth
    \/ ScriptModels
    \/ ScriptChat
    \/ ScriptReport

ScriptSpec == ScriptInit /\ [][ScriptNext]_vars

-----------------------------------------------------------------------------
(* ollama_proxy.py: POST /api/pull *)

\* the literal lists of line 431-433
BuiltinNames == {"gemini-2.0-flash", "gemini-1.5-flash", "gemini-1.5-pro",
                 "gpt-4o", "gpt-4", "gpt-3.5-turbo",
                 "claude-3-5-sonnet", "claude-3-haiku"}

PullNames == DOMAIN MODEL_MAPPING \cup BuiltinNames \cup OllamaModels

\* request bodies: not JSON, JSON that is no object, an object without
\* "name", an object with "name"; Ollama clients also send "stream"
PullBodies ==
    {[received |-> TRUE, json |-> FALSE, object |-> FALSE,
      has_name |-> FALSE, name |-> "", stream |-> "absent"],
     [received |-> TRUE, json |-> TRUE, object |-> FALSE,
      has_name |-> FALSE, name |-> "", stream |-> "absent"]}
    \cup [received : {TRUE}, json : {TRUE}, object : {TRUE},
          has_name : {FALSE}, name : {""},
          stream : {"absent", "true", "false"}]
    \cup [received : {TRUE}, json : {TRUE}, object : {TRUE},
          has_name : {TRUE}, name : PullNames,
          stream : {"absent", "true", "false"}]

\* Line 430-434
ModelExists(model_name) ==
    \/ model_name \in DOMAIN MODEL_MAPPING
    \/ model_name \in BuiltinNames

\* Line 442-444: every exception of the try block, the HTTPException of
\* line 440 included, is turned into a 500 whose detail quotes str(e)
PullFailure(message) ==
    [status |-> 500, detail |-> "Pull model error: " \o message,
     body_status |-> ""]

\* Lines 422-444
pull_model(body) ==
    IF ~body.json THEN PullFailure("Expecting value")
    ELSE IF ~body.object
    THEN PullFailure("'list' object has no attribute 'get'")
    ELSE LET model_name == IF body.has_name THEN body.name ELSE ""
         IN  IF ModelExists(model_name)
             THEN [status |-> 200, detail |-> "",
                   body_status |-> "success"]
             ELSE PullFailure("404: Model " \o model_name \o " not found")

PullInit ==
    /\ ServiceIdle
    /\ CallbackIdle /\ DeployIdle /\ ConfigIdle /\ ScriptIdle /\ RunnerIdle
    /\ TesterIdle
    /\ PullIdle

\* a POST /api/pull arrives
PullReceive ==
    /\ pull_body = NoPullBody \/ pull_answer # NoPullAnswer
    /\ pull_body' \in PullBodies
    /\ pull_answer' = NoPullAnswer
    /\ UNCHANGED << serviceVars, callbackVars, deployVars, configVars,
                    scriptVars, runnerVars, testerVars >>

PullRespond ==
    /\ pull_body # NoPullBody
    /\ pull_answer = NoPullAnswer
    /\ pull_answer' = pull_model(pull_body)
    /\ UNCHANGED pull_body
    /\ UNCHANGED << serviceVars, callbackVars, deployVars, configVars,
                    scriptVars, runnerVars, testerVars >>

PullNext ==
    \/ PullReceive
    \/ PullRespond

PullSpec == PullInit /\ [][PullNext]_vars

-----------------------------------------------------------------------------
(* deployment/Helper/poetry_version.py: DeployConfig *)

MaxBuilt == 2

Environments == {"production", "staging", "development", "qa"}

\* VersionManager.get_project_version() at the time of a construction
ProjectVersions == {"0.1.0", "1.2.0"}

NoOverride == [k \in {} |-> ""]

\* the dictionary a configuration file holds, as far as __init__ reads it:
\* no file (or an unreadable one), a file setting deployment.memory, a
\* file setting a memory _validate_config rejects, a file setting the
\* top-level "environment"
ConfigFiles ==
    {[deployment |-> NoOverride, environment |-> ""],
     [deployment |-> [memory |-> "512Mi"], environment |-> ""],
     [deployment |-> [memory |-> "2GB"], environment |-> ""],
     [deployment |-> NoOverride, environment |-> "custom"]}

\* Lines 113-138
_get_environment_overrides(environment) ==
    IF environment = "development"
    THEN [enable_tracing |-> TRUE, memory |-> "1Gi", cpu |-> "1"]
    ELSE IF environment = "staging"
    THEN [enable_tracing |-> TRUE, memory |-> "2Gi", cpu |-> "2"]
    ELSE IF environment = "production"
    THEN [enable_tracing |-> FALSE, memory |-> "4Gi", cpu |-> "4"]
    ELSE NoOverride

\* Lines 105-111, on the "deployment" dictionary: the keys of override
\* are written into base
_merge_configs(base, override) ==
    [k \in DOMAIN base \cup DOMAIN override |->
        IF k \in DOMAIN override THEN override[k] ELSE base[k]]

\* Lines 80-103: config is a shallow copy of defaults, so its "deployment"
\* and "wheel" are the dictionaries of defaults themselves; the result is
\* the instance's configuration, whose nested dictionaries are those the
\* class attribute now holds
_load_config(defaults, config_file, environment) ==
    [deployment |->
        _merge_configs(_merge_configs(defaults.deployment,
                                      config_file.deployment),
                       _get_environment_overrides(environment)),
     wheel_version |-> defaults.wheel_version,
     environment |-> IF config_file.environment # ""
                     THEN config_file.environment
                     ELSE defaults.environment]

\* Lines 140-159: None when the configuration is accepted
_validate_config(config) ==
    IF config.wheel_version = "" THEN "Invalid version"
    ELSE IF ~(\/ EndsWith(config.deployment.memory, "Mi")
              \/ EndsWith(config.deployment.memory, "Gi"))
    THEN "Invalid memory format"
    ELSE "None"

ConfigInit ==
    /\ ServiceIdle
    /\ CallbackIdle /\ DeployIdle /\ ScriptIdle /\ RunnerIdle /\ TesterIdle
    /\ PullIdle
    /\ DEFAULT_CONFIG = ClassDefaults
    /\ built = << >>

\* Lines 67-78: DeployConfig(config_file, environment)
DeployConfigInit ==
    /\ Len(built) < MaxBuilt
    /\ \E config_file \in ConfigFiles, environment \in Environments,
          version \in ProjectVersions :
         LET loaded == _load_config(DEFAULT_CONFIG, config_file, environment)
             config == [loaded EXCEPT !.wheel_version = version]
         IN  /\ DEFAULT_CONFIG' =
                    [DEFAULT_CONFIG EXCEPT !.deployment = config.deployment,
                                           !.wheel_version = version]
             /\ built' = Append(built,
                    [config_file |-> config_file,
                     environment |-> environment,
                     version |-> version,
                     config |-> config,
                     raised |-> _validate_config(config)])
    /\ UNCHANGED << serviceVars, callbackVars, deployVars, scriptVars,
                    runnerVars, testerVars, pullVars >>

ConfigNext == DeployConfigInit

ConfigSpec == ConfigInit /\ [][ConfigNext]_vars

-----------------------------------------------------------------------------
(* run_ollama_adk_integration.py: OllamaADKIntegrationRunner *)

\* what a step of the try block does: return True, return False, raise
\* an exception, or be interrupted from the keyboard
StepOutcomes == {"True", "False", "Exception", "KeyboardInterrupt"}

\* an entry of self.processes and what has happened to its process
\*   state:   "running" or "exited"
\*   polled:  what process.poll() told stop_all_services ("" = not asked)
\*   signals: the signals sent to its process group
\*   wait:    how process.wait(timeout=5) ended ("" = not called)
\*   error:   the except clause of line 242 ran for it
Started(name) ==
    [name |-> name, state |-> "running", polled |-> "", signals |-> << >>,
     wait |-> "", error |-> FALSE]

RunnerInit ==
    /\ ServiceIdle
    /\ CallbackIdle /\ DeployIdle /\ ConfigIdle /\ ScriptIdle /\ TesterIdle
    /\ PullIdle
    /\ processes = << >>
    /\ runner_pc = "setup_environment"
    /\ stop_runs = 0
    /\ runner_path = ""

\* Lines 252-274: where the try block goes after a step
AfterStep(step, outcome, next) ==
    IF outcome = "True" /\ next # ""
    THEN runner_pc' = next /\ UNCHANGED runner_path
    ELSE /\ runner_pc' = "finally"
         /\ runner_path' =
              IF outcome \in {"Exception", "KeyboardInterrupt"} THEN outcome
              ELSE step \o " returned " \o outcome

\* Lines 254-255, 26-76
SetupEnvironment ==
    /\ runner_pc = "setup_environment"
    /\ \E outcome \in StepOutcomes :
         AfterStep("setup_environment", outcome, "start_ollama_proxy")
    /\ UNCHANGED << processes, stop_runs >>
    /\ UNCHANGED << serviceVars, callbackVars, deployVars, configVars,
                    scriptVars, testerVars, pullVars >>

\* Lines 78-108 and 110-149: Popen raises (caught, False), or the process
\* is started and appended to self.processes and then the sleep is
\* interrupted, or poll() finds it exited (False) or running (True)
StartService(step, name, next) ==
    /\ runner_pc = step
    /\ \/ /\ AfterStep(step, "False", next)
          /\ UNCHANGED processes
       \/ /\ processes' = Append(processes, Started(name))
          /\ AfterStep(step, "KeyboardInterrupt", next)
       \/ /\ processes' = Append(processes,
                                 [Started(name) EXCEPT !.state = "exited"])
          /\ AfterStep(step, "False", next)
       \/ /\ processes' = Append(processes, Started(name))
          /\ AfterStep(step, "True", next)
    /\ UNCHANGED stop_runs
    /\ UNCHANGED << serviceVars, callbackVars, deployVars, configVars,
                    scriptVars, testerVars, pullVars >>

start_ollama_proxy ==
    StartService("start_ollama_proxy", "Ollama Proxy", "start_adk_server")

start_adk_server ==
    StartService("start_adk_server", "ADK API Server", "wait_for_services")

\* Lines 265-266, 151-181
wait_for_services ==
    /\ runner_pc = "wait_for_services"
    /\ \E outcome \in StepOutcomes :
         AfterStep("wait_for_services", outcome, "run_integration_test")
    /\ UNCHANGED << processes, stop_runs >>
    /\ UNCHANGED << serviceVars, callbackVars, deployVars, configVars,
                    scriptVars, testerVars, pullVars >>

\* Lines 269-271, 183-216
run_integration_test ==
    /\ runner_pc = "run_integration_test"
    /\ \E outcome \in StepOutcomes :
         AfterStep("run_integration_test", outcome, "")
    /\ UNCHANGED << processes, stop_runs >>
    /\ UNCHANGED << serviceVars, callbackVars, deployVars, configVars,
                    scriptVars, testerVars, pullVars >>

\* a service process ends by itself while the runner works
ProcessExits ==
    /\ runner_pc \notin {"idle", "returned"}
    /\ \E i \in 1..Len(processes) :
         /\ processes[i].state = "running"
         /\ processes[i].polled = ""
         /\ processes' = [processes EXCEPT ![i].state = "exited"]
    /\ UNCHANGED << runner_pc, stop_runs, runner_path >>
    /\ UNCHANGED << serviceVars, callbackVars, deployVars, configVars,
                    scriptVars, testerVars, pullVars >>

\* the entries of self.processes the loop of line 222 has not reached
NotYetStopped == {i \in 1..Len(processes) : processes[i].polled = ""}

\* Lines 222-243 for one running process: the signals sent, how the wait
\* ended, and whether an exception was caught
StopOutcomes ==
    {[signals |-> << >>, wait |-> "", error |-> TRUE, state |-> "running"],
     [signals |-> << >>, wait |-> "", error |-> TRUE, state |-> "exited"],
     [signals |-> << "SIGTERM" >>, wait |-> "exited", error |-> FALSE,
      state |-> "exited"],
     [signals |-> << "SIGTERM", "SIGKILL" >>, wait |-> "timeout",
      error |-> FALSE, state |-> "exited"],
     [signals |-> << "SIGTERM" >>, wait |-> "timeout", error |-> TRUE,
      state |-> "exited"]}

Stopped(process, outcome) ==
    IF process.state # "running"
    THEN [process EXCEPT !.polled = "exited"]
    ELSE [process EXCEPT !.polled = "running",
                         !.signals = outcome.signals,
                         !.wait = outcome.wait,
                         !.error = outcome.error,
                         !.state = outcome.state]

\* Variant of StopProcess: an exception while stopping a process ends
\* the loop
StopProcessAborting ==
    /\ runner_pc = "finally"
    /\ NotYetStopped # {}
    /\ LET i == CHOOSE j \in NotYetStopped : \A k \in NotYetStopped : j <= k
       IN  \E outcome \in StopOutcomes :
             LET stopped == Stopped(processes[i], outcome)
             IN  /\ processes' = [processes EXCEPT ![i] = stopped]
                 /\ IF stopped.error
                    THEN runner_pc' = "returned" /\ stop_runs' = stop_runs + 1
                    ELSE UNCHANGED << runner_pc, stop_runs >>
    /\ UNCHANGED runner_path
    /\ UNCHANGED << serviceVars, callbackVars, deployVars, configVars,
                    scriptVars, testerVars, pullVars >>

\* Lines 222-243: one iteration of the loop of stop_all_services
StopProcess ==
    /\ runner_pc = "finally"
    /\ NotYetStopped # {}
    /\ LET i == CHOOSE j \in NotYetStopped : \A k \in NotYetStopped : j <= k
       IN  \E outcome \in StopOutcomes :
             processes' = [processes EXCEPT
                              ![i] = Stopped(processes[i], outcome)]
    /\ UNCHANGED << runner_pc, stop_runs, runner_path >>
    /\ UNCHANGED << serviceVars, callbackVars, deployVars, configVars,
                    scriptVars, testerVars, pullVars >>

\* Lines 245 and 279-280: the loop is over, stop_all_services returns and
\* run_full_integration_test returns the value of the try block
StopAllServicesReturns ==
    /\ runner_pc = "finally"
    /\ NotYetStopped = {}
    /\ stop_runs' = stop_runs + 1
    /\ runner_pc' = "returned"
    /\ UNCHANGED << processes, runner_path >>
    /\ UNCHANGED << serviceVars, callbackVars, deployVars, configVars,
                    scriptVars, testerVars, pullVars >>

RunnerNext ==
    \/ SetupEnvironment
    \/ start_ollama_proxy
    \/ start_adk_server
    \/ wait_for_services
    \/ run_integration_test
    \/ ProcessExits
    \/ StopProcess
    \/ StopAllServicesReturns

RunnerSpec == RunnerInit /\ [][RunnerNext]_vars

-----------------------------------------------------------------------------
(* test_ollama_adk_integration.py: OllamaADKServerTester *)

\* success_rate >= 75
PassRate == 75

TesterInit ==
    /\ ServiceIdle
    /\ CallbackIdle /\ DeployIdle /\ ConfigIdle /\ ScriptIdle /\ RunnerIdle
    /\ PullIdle
    /\ test_results = << >>
    /\ tester_pc = "ollama_health"
    /\ tester_exit = -1

\* self.test_results.append({"test": name, "result": result}); a failure
\* of a test that aborts the suite goes to _compile_results
RunTest(name, next, aborts) ==
    /\ tester_pc = name
    /\ \E success \in BOOLEAN :
         /\ test_results' = Append(test_results,
                [test |-> name, success |-> success,
                 error |-> IF success THEN "" ELSE "failed"])
         /\ tester_pc' = IF ~success /\ aborts THEN "compile_results"
                         ELSE next
    /\ UNCHANGED tester_exit
    /\ UNCHANGED << serviceVars, callbackVars, deployVars, configVars,
                    scriptVars, runnerVars, pullVars >>

\* Lines 48-55
test_ollama_health == RunTest("ollama_health", "adk_health", TRUE)

\* Lines 57-64
test_adk_health == RunTest("adk_health", "ollama_models", TRUE)

\* Lines 66-69
test_ollama_models == RunTest("ollama_models", "create_session", FALSE)

\* Lines 71-78
test_create_session == RunTest("create_session", "configure_ollama", TRUE)

\* Lines 82-85
test_configure_ollama_model ==
    RunTest("configure_ollama", "simple_query_adk", FALSE)

\* Lines 87-90
test_simple_query_via_adk ==
    RunTest("simple_query_adk", "data_science_query_adk", FALSE)

\* Lines 92-102: the query runs in a session of its own and counts as
\* failed when that session cannot be created
test_data_science_query_via_adk ==
    /\ tester_pc = "data_science_query_adk"
    /\ \E ds_session_success \in BOOLEAN, query_success \in BOOLEAN :
         test_results' = Append(test_results,
            [test |-> "data_science_query_adk",
             success |-> ds_session_success /\ query_success,
             error |-> IF ~ds_session_success
                       THEN "Could not create session for data science query"
                       ELSE IF query_success THEN "" ELSE "failed"])
    /\ tester_pc' = "direct_ollama_chat"
    /\ UNCHANGED tester_exit
    /\ UNCHANGED << serviceVars, callbackVars, deployVars, configVars,
                    scriptVars, runnerVars, pullVars >>

\* Lines 104-107
test_direct_ollama_chat ==
    RunTest("direct_ollama_chat", "compile_results", FALSE)

SuccessfulTests ==
    Cardinality({i \in 1..Len(test_results) : test_results[i].success})

\* Lines 416-464 and 467-474: successful / total * 100 >= 75, exact in
\* floating point for the totals 1, 2, 4 and 8 that occur
_compile_results ==
    /\ tester_pc = "compile_results"
    /\ tester_exit' =
         IF SuccessfulTests * 100 >= PassRate * Len(test_results)
         THEN 0 ELSE 1
    /\ tester_pc' = "exited"
    /\ UNCHANGED test_results
    /\ UNCHANGED << serviceVars, callbackVars, deployVars, configVars,
                    scriptVars, runnerVars, pullVars >>

TesterNext ==
    \/ test_ollama_health
    \/ test_adk_health
    \/ test_ollama_models
    \/ test_create_session
    \/ test_configure_ollama_model
    \/ test_simple_query_via_adk
    \/ test_data_science_query_via_adk
    \/ test_direct_ollama_chat
    \/ _compile_results

TesterSpec == TesterInit /\ [][TesterNext]_vars

-----------------------------------------------------------------------------

Next ==
    \/ AdapterReceive
    \/ AdapterSessionResponse
    \/ AdapterMessageFailure
    \/ AdapterMessageResponse
    \/ AgentApiReceive
    \/ AgentApiRun
    \/ MainReceive
    \/ MainRespond

Spec == Init /\ [][Next]_vars

-----------------------------------------------------------------------------
(* Vocabulary of the properties *)

HasUserRole(msgs) == \E i \in 1..Len(msgs) : msgs[i].role = "user"

IsLastUser(msgs, i) ==
    /\ msgs[i].role = "user"
    /\ \A j \in (i + 1)..Len(msgs) : msgs[j].role # "user"

\* the calls that hand the user's text to the backend
ForwardOps == {"send_message", "runner.run", "run_sync"}

CallIndices(op) == {i \in 1..Len(calls) : calls[i].op = op}

CreateChatCompletionHandlers == {"adk_openai_adapter", "adk_agent_api"}

ReplyContent == reply.choices[1].message.content

-----------------------------------------------------------------------------
(* Properties *)

\* C1: a request without any user-role message (the empty list included)
\* makes create_chat_completion fail with a client error (4xx) and issue no
\* backend call at all.
C1_NoUserMessageClientErrorNoCall ==
    (/\ handler \in CreateChatCompletionHandlers
     /\ pc = "done"
     /\ ~HasUserRole(request.messages))
    => (status \in 400..499 /\ calls = << >>)

\* The part of C1 that the handlers do keep: such a request is answered
\* with an error and no backend call was issued.
NoUserMessageNoBackendCall ==
    (/\ handler \in CreateChatCompletionHandlers
     /\ pc = "done"
     /\ ~HasUserRole(request.messages))
    => (status >= 400 /\ calls = << >>)

\* C2: a request without any user-role message is answered with HTTP 400.
C2_NoUserMessageStatus400 ==
    (/\ handler \in CreateChatCompletionHandlers
     /\ status # 0
     /\ ~HasUserRole(request.messages))
    => status = 400

\* C3: whenever the messages hold a user-role message, the text handed to
\* the backend is the content of the last user-role message, for all three
\* handlers.
C3_ForwardsLastUserMessage ==
    \A i \in 1..Len(calls) :
        (calls[i].op \in ForwardOps /\ HasUserRole(request.messages))
        => \E k \in 1..Len(request.messages) :
              /\ IsLastUser(request.messages, k)
              /\ calls[i].text = request.messages[k].content

\* What holds of C3 for the two create_chat_completion handlers.
CreateChatCompletionForwardsLastUserMessage ==
    \A i \in 1..Len(calls) :
        (calls[i].op \in ForwardOps /\ handler \in CreateChatCompletionHandlers)
        => \E k \in 1..Len(request.messages) :
              /\ IsLastUser(request.messages, k)
              /\ calls[i].text = request.messages[k].content
              /\ calls[i].text # ""

C5_SendAfterSessionReturn ==
    \A j \in CallIndices("send_message") :
        \E h \in CallIndices("create_session") :
            \E i \in CallIndices("create_session_return") :
                h < i /\ i < j /\ calls[i].code = 200

C5_Witness ==
    /\ handler = "adk_openai_adapter"
    /\ pc = "sending"
    /\ CallIndices("send_message") # {}

\* C6: whatever the backend answers (success, non-200, connection error,
\* timeout), adk_openai_adapter issues at most one create-session call and
\* at most one message-send call.
C6_NoCallRepeated ==
    handler = "adk_openai_adapter"
    => /\ Cardinality(CallIndices("create_session")) <= 1
       /\ Cardinality(CallIndices("send_message")) <= 1
       /\ Cardinality(CallIndices("create_session_return")) <= 1
       /\ Cardinality(CallIndices("send_message_return")) <= 1

\* a request whose message-send got no response (connection error or timeout)
C6_Witness ==
    /\ handler = "adk_openai_adapter"
    /\ pc = "done"
    /\ calls # << >>
    /\ calls[Len(calls)].op = "send_message_return"
    /\ calls[Len(calls)].code = 0
    /\ Cardinality(CallIndices("send_message")) = 1

\* an element of an events list that carries a non-empty content
ContentBearing(e) == e.obj /\ Truthy(e.content)

ContentBearingIndices(events) ==
    {i \in 1..Len(events) : ContentBearing(events[i])}

AgentContentBearingIndices(events) ==
    {i \in 1..Len(events) :
        events[i].hasContent /\ JoinParts(events[i].parts, 1) # ""}

\* the message-send of adk_openai_adapter returned 200 with a JSON body
BodyReceived == handler = "adk_openai_adapter" /\ response_data # NoBody

\* C7: when several events of the backend result carry a non-empty
\* content, the answer carries the text of the last of them.
C7_LastContentEventWins ==
    /\ (/\ BodyReceived
        /\ status = 200
        /\ response_data.hasEvents
        /\ Cardinality(ContentBearingIndices(response_data.events)) >= 2)
       => \E k \in ContentBearingIndices(response_data.events) :
             /\ \A j \in ContentBearingIndices(response_data.events) : j <= k
             /\ ReplyContent = PyStr(response_data.events[k].content)
    /\ (/\ handler = "adk_agent_api"
        /\ status = 200
        /\ Cardinality(AgentContentBearingIndices(agent_events)) >= 2)
       => \E k \in AgentContentBearingIndices(agent_events) :
             /\ \A j \in AgentContentBearingIndices(agent_events) : j <= k
             /\ ReplyContent = JoinParts(agent_events[k].parts, 1)

\* C8: for a list of events whose content-bearing events have
\* content.parts[0].text = t, the caller receives exactly t as
\* choices[0].message.content.
C8_PartsTextIsAnswer ==
    (/\ BodyReceived
     /\ response_data.hasEvents
     /\ \A i \in 1..Len(response_data.events) : response_data.events[i].obj
     /\ ContentBearingIndices(response_data.events) # {}
     /\ \A i \in ContentBearingIndices(response_data.events) :
            response_data.events[i].content.k = "parts")
    => /\ status = 200
       /\ \E k \in ContentBearingIndices(response_data.events) :
             ReplyContent = response_data.events[k].content.s

\* the events scan ends without raising and without a text
NoEventYieldsText(body) ==
    \/ ~body.hasEvents
    \/ \A i \in 1..Len(body.events) :
          body.events[i].obj /\ ~Truthy(body.events[i].content)

C10_ExtractionNeverRaises ==
    BodyReceived
    => /\ status = 200
       /\ reply.object = "chat.completion"
       /\ Len(reply.choices) = 1
       /\ ReplyContent # ""

\* C11: every HTTP 200 answer of create_chat_completion is a chat.completion
\* object with exactly one choice: index 0, role assistant, a non-empty
\* content, finish_reason stop, and the model named in the request.
C11_SuccessEnvelope ==
    (handler \in CreateChatCompletionHandlers /\ status = 200)
    => /\ reply.object = "chat.completion"
       /\ Len(reply.choices) = 1
       /\ reply.choices[1].index = 0
       /\ reply.choices[1].message.role = "assistant"
       /\ reply.choices[1].message.content # ""
       /\ reply.choices[1].finish_reason = "stop"
       /\ reply.model = request.model

\* a 200 answer for a backend body in which no text was found
C11_Witness ==
    /\ handler = "adk_openai_adapter"
    /\ status = 200
    /\ response_data.top = "object"
    /\ ~response_data.hasEvents
    /\ response_data.state = JAbsent
    /\ request.model = "adk-data-science-agent"
    /\ ReplyContent = Placeholder

\* the last entry of the call log is a return of one of the two posts
LastReturn(op) ==
    /\ handler = "adk_openai_adapter"
    /\ pc = "done"
    /\ calls # << >>
    /\ calls[Len(calls)].op = op

\* C12: when the create-session or the message-send call gets no response
\* (connection refused or timeout), the caller receives 502 or 503.
C12_BackendUnavailableIs502Or503 ==
    (/\ LastReturn("create_session_return") \/ LastReturn("send_message_return")
     /\ calls[Len(calls)].code = 0)
    => status \in {502, 503}

\* C13: when the message-send returns a non-200 status, the caller receives
\* HTTP 500 whose detail contains the error body returned by the backend.
C13_ProtocolErrorSurfacesBody ==
    (/\ LastReturn("send_message_return")
     /\ calls[Len(calls)].code \notin {0, 200})
    => /\ status = 500
       /\ \E i \in 1..Len(detail) : detail[i] = calls[Len(calls)].text

C13_Witness ==
    /\ LastReturn("send_message_return")
    /\ calls[Len(calls)].code = 404
    /\ calls[Len(calls)].text = "session not found"
    /\ status = 500

-----------------------------------------------------------------------------
(* Streaming relay of ollama_proxy *)

DoneIndices == {i \in 1..Len(frames) : frames[i].payload.done}

ContentFrames == SelectSeq(frames, LAMBDA f : ~f.payload.done)

FrameContents(fs) == [i \in 1..Len(fs) |-> fs[i].payload.content]

ChunkContents(cs) == [i \in 1..Len(cs) |-> cs[i].content]

\* the chunks the relay has already dealt with: all but the one in flight
HandledChunks ==
    IF relay_pc = "got_chunk"
    THEN SubSeq(backend.chunks, 1, Len(backend.chunks) - 1)
    ELSE backend.chunks

\* C14: a streamed /api/chat or /api/generate response holds exactly one
\* frame with done = true once the stream has ended, whether the backend
\* completed or raised; that frame is the last one, every earlier frame
\* has done = false, and no done = true frame exists before the end.
C14_ExactlyOneDoneFrameLast ==
    /\ \A i \in DoneIndices : i = Len(frames)
    /\ relay_pc = "closed" => Cardinality(DoneIndices) = 1
    /\ relay_pc # "closed" => DoneIndices = {}

C14_Witness ==
    /\ relay_pc = "closed"
    /\ backend.error = ""
    /\ Len(backend.chunks) >= 2
    /\ Len(frames) >= 3
    /\ frames[Len(frames)].payload.done

\* C15: when the backend raises after k >= 0 chunks, the stream ends with
\* one terminal frame that has done = true and carries the error text, no
\* frame follows it, and once the backend stream has completed or raised
\* the relayed stream is eventually closed.
C15_ErrorEndsStream ==
    /\ [](relay_pc = "closed" /\ backend.error # ""
          => /\ frames # << >>
             /\ frames[Len(frames)].payload.done
             /\ frames[Len(frames)].payload.has_error
             /\ frames[Len(frames)].payload.error = backend.error
             /\ \A i \in 1..(Len(frames) - 1) :
                    ~frames[i].payload.done /\ ~frames[i].payload.has_error)
    /\ [][relay_pc = "closed" => frames' = frames /\ relay_pc' = "closed"]_vars
    /\ (relay_pc \in {"got_end", "got_error"} ~> relay_pc = "closed")

C15_Witness ==
    /\ relay_pc = "closed"
    /\ backend.error = "RateLimitError"
    /\ Len(frames) >= 2
    /\ frames[Len(frames)].payload.error = "RateLimitError"

\* a chunk that has choices, a delta and a non-empty delta content
CarriesText(chunk) == chunk.choices /\ chunk.content # ""

\* C16 as stated: the contents of the done = false frames are, in order
\* and in number, the chunks received from the backend.
C16_EveryChunkRelayed ==
    FrameContents(ContentFrames) = ChunkContents(HandledChunks)

\* C16: the contents of the done = false frames are, in order and in
\* number, the non-empty delta contents of the chunks received from the
\* backend; a chunk without choices or with an empty delta is not relayed.
C16_EveryTextChunkRelayed ==
    FrameContents(ContentFrames)
      = ChunkContents(SelectSeq(HandledChunks, CarriesText))

C16_Witness ==
    /\ relay_pc = "closed"
    /\ Len(backend.chunks) = 2
    /\ backend.chunks[1].content = ""
    /\ backend.chunks[2].content = "lo"
    /\ Len(ContentFrames) = 1

\* C17: the body of a streamed /api/chat response is newline-delimited
\* JSON: every non-empty line decodes as a JSON object, so the line by
\* line client of test_streaming_chat decodes every content frame and
\* sees the frame with done = true.
C17_LineByLineClientDecodes ==
    (endpoint = "chat" /\ relay_pc = "closed")
    => LET lines == BodyLines(frames)
           seen == test_streaming_chat(lines, << >>)
       IN  /\ \A i \in 1..Len(lines) : ~lines[i].blank => JsonDecodes(lines[i])
           /\ seen.printed = FrameContents(ContentFrames)
           /\ seen.done

-----------------------------------------------------------------------------
(* Model name mapping of ollama_proxy *)

\* C18: map_model_name is total: for every model name, mapped or not and
\* the empty string included, and every LITELLM_PROVIDER, recognised or
\* not, it returns a non-empty model id and does not raise.
C18_MapModelNameTotal ==
    /\ ~map_model_name(ollama_request.model, provider).raised
    /\ map_model_name(ollama_request.model, provider).id # ""
    /\ (handler = "ollama_proxy" /\ relay_pc # "start")
       => kwargs.model = map_model_name(ollama_request.model, provider).id

C18_Witness ==
    /\ relay_pc = "calling"
    /\ ollama_request.model = ""
    /\ provider = "ollama"
    /\ kwargs.model = "gemini/gemini-2.0-flash"

\* C19: a model name that is not a key of MODEL_MAPPING is mapped, under
\* every provider, to MODEL_MAPPING[get_default_model()].
C19_UnknownNameGetsDefault ==
    (/\ handler = "ollama_proxy"
     /\ relay_pc # "start"
     /\ ollama_request.model \notin DOMAIN MODEL_MAPPING)
    => kwargs.model = MODEL_MAPPING[get_default_model(provider)]

-----------------------------------------------------------------------------
(* Concurrent requests of adk_openai_adapter *)

SendIndices(t) ==
    {i \in 1..Len(tasks[t].calls) : tasks[t].calls[i].op = "send_message"}

\* the session that task t's own create-session call produced
OwnSession(t) ==
    IF tasks[t].session_outcome.id = "" THEN TaskSessionId(t)
    ELSE tasks[t].session_outcome.id

\* C20: under every interleaving of concurrently handled requests, each
\* request's message-send goes to the session of its own create-session
\* call with its own user message, and its calls and its answer are those
\* of the same request handled alone with the same backend responses.
C20_ConcurrentRequestsIndependent ==
    \A t \in DOMAIN tasks :
        /\ \A i \in SendIndices(t) :
               /\ tasks[t].calls[i].sid = OwnSession(t)
               /\ tasks[t].calls[i].text =
                      ExtractUserMessage(tasks[t].request.messages).user_message
        /\ tasks[t].pc = "done"
           => LET alone == HandledAlone(tasks[t].request, TaskSessionId(t),
                                        tasks[t].session_outcome,
                                        tasks[t].message_outcome)
              IN  /\ tasks[t].calls = alone.calls
                  /\ tasks[t].answer = alone.answer

C20_Witness ==
    /\ DOMAIN tasks # {}
    /\ tasks[1].pc = "done"
    /\ tasks[1].answer.status = 200
    /\ tasks[1].answer.reply.choices[1].message.content = "a"
    /\ tasks[1].calls[3].text = "2+2?"
    /\ tasks[2].pc = "sending"
    /\ tasks[2].calls[3].text = "hi"
    /\ tasks[2].calls[3].sid = "srv_session"

-----------------------------------------------------------------------------
(* Response cache and attribution of OllamaCallbackHandler *)

CacheSize == Cardinality(DOMAIN model_cache)

\* C21: model_cache never holds more than 100 entries, and once it holds
\* 100 no callback call adds, replaces or evicts an entry.
C21_CacheBoundedDropWhenFull ==
    /\ [](CacheSize <= 100)
    /\ [][CacheSize = 100 => model_cache' = model_cache]_vars

C21_Witness ==
    /\ CacheSize = 100
    /\ cb_log # << >>
    /\ cb_log[Len(cb_log)].op = "after"
    /\ _extract_user_message(cb_log[Len(cb_log)].llm_request) = "2+2?"
    /\ "2+2?" \notin DOMAIN model_cache
    /\ "hi" \in DOMAIN model_cache

\* how often sub occurs in str
Occurrences(str, sub) ==
    Cardinality({i \in 1..(Len(str) - Len(sub) + 1) :
                    SubSeq(str, i, i + Len(sub) - 1) = sub})

\* the response objects that after_model_callback has processed
Attributed ==
    {cb_log[i].response : i \in {j \in 1..Len(cb_log) : cb_log[j].op = "after"}}

\* C27: however often after_model_callback has been applied to a response,
\* the text of its first part holds the footer '_Response via <source>_'
\* exactly once.
C27_AttributionIdempotent ==
    \A id \in Attributed :
        (responses[id].parts /\ responses[id].text # "")
        => Occurrences(responses[id].text,
                       "_Response via " \o OllamaSource \o "_") = 1

\* a user message can be extracted: contents are not empty, the last one
\* has role user and has parts
HasUserMessage(llm_request) ==
    /\ llm_request.contents # << >>
    /\ llm_request.contents[Len(llm_request.contents)].role = "user"
    /\ llm_request.contents[Len(llm_request.contents)].parts # << >>

\* C28: before_model_callback answers from the cache only a request whose
\* last content is a user message equal to the user message of an earlier
\* request whose response was cached; a request without a user message is
\* never answered from the cache and never populates it.
C28_CacheKeyedByUserMessage ==
    \A i \in 1..Len(cb_log) :
        /\ (cb_log[i].op = "before" /\ cb_log[i].response # 0)
           => /\ HasUserMessage(cb_log[i].llm_request)
              /\ \E j \in 1..(i - 1) :
                    /\ cb_log[j].op = "after"
                    /\ cb_log[j].stored
                    /\ HasUserMessage(cb_log[j].llm_request)
                    /\ _extract_user_message(cb_log[j].llm_request)
                         = _extract_user_message(cb_log[i].llm_request)
        /\ (cb_log[i].op = "after" /\ ~HasUserMessage(cb_log[i].llm_request))
           => ~cb_log[i].stored

-----------------------------------------------------------------------------
(* Dry run of deploy.py *)

\* C22: with --dry_run main makes no GCP call on any path: no bucket
\* lookup or creation, no vertexai.init, no agent_engines call.
C22_DryRunMakesNoGcpCall ==
    FLAGS.dry_run => gcp_calls = << >>

C22_Witness ==
    /\ FLAGS.dry_run
    /\ FLAGS.create
    /\ FLAGS.wheel_exists
    /\ deploy_pc = "returned_simulated_create"
    /\ gcp_calls = << >>

-----------------------------------------------------------------------------
(* Exit status of test-ollama-proxy.py *)

CheckFailed(i) ==
    \/ ~CheckPasses(checks[i].check, checks[i].response)
    \/ CheckCrashes(checks[i].check, checks[i].response)

\* C23: test-ollama-proxy.py exits with 1 whenever one of its checks
\* failed, and with 0 only when all four checks ran and passed.
C23_ExitCodeReflectsChecks ==
    script_pc = "exited"
    => /\ (\E i \in 1..Len(checks) : CheckFailed(i)) => exit_code = 1
       /\ exit_code = 0
          => /\ Len(checks) = 4
             /\ \A i \in 1..Len(checks) : ~CheckFailed(i)

-----------------------------------------------------------------------------
(* POST /api/pull *)

PullAnswered == pull_body.json /\ pull_body.object /\ pull_answer.status # 0

PulledName == IF pull_body.has_name THEN pull_body.name ELSE ""

NameKnown ==
    \/ PulledName \in DOMAIN MODEL_MAPPING
    \/ PulledName \in BuiltinNames

\* C24: a pull of a name that is neither a key of MODEL_MAPPING nor in the
\* built-in lists is answered 404 'Model <name> not found'; a pull of a
\* known name is answered with status 'success'.
C24_PullUnknownIs404 ==
    PullAnswered
    => IF NameKnown
       THEN pull_answer.status = 200 /\ pull_answer.body_status = "success"
       ELSE /\ pull_answer.status = 404
            /\ pull_answer.detail = "Model " \o PulledName \o " not found"

-----------------------------------------------------------------------------
(* DeployConfig and its class-level defaults *)

\* the configuration an instance has when nothing was built before it
ConfigOnItsOwn(b) ==
    [_load_config(ClassDefaults, b.config_file, b.environment)
        EXCEPT !.wheel_version = b.version]

\* C29: constructing a DeployConfig leaves DeployConfig.DEFAULT_CONFIG as
\* the class defines it, and the configuration of each instance is the one
\* its own config_file, environment and project version give.
C29_DefaultConfigUntouched ==
    /\ DEFAULT_CONFIG = ClassDefaults
    /\ \A i \in 1..Len(built) : built[i].config = ConfigOnItsOwn(built[i])

-----------------------------------------------------------------------------
(* The model name in streamed frames *)

\* C30: every streamed frame that carries content or ends the stream names,
\* in its 'model' field, the model the client sent in the request, as the
\* non-streaming response does.
C30_StreamedModelIsRequestModel ==
    /\ \A i \in 1..Len(frames) :
         ~frames[i].payload.has_error
         => frames[i].payload.model = ollama_request.model
    /\ (relay_pc = "done" /\ proxy_status = 200 /\ ~ollama_request.stream)
       => proxy_reply.model = ollama_request.model

-----------------------------------------------------------------------------
(* Stopping the services of the integration runner *)

SentTo(process, sig) ==
    \E k \in 1..Len(process.signals) : process.signals[k] = sig

\* C25: when run_full_integration_test returns, on whatever path its try
\* block ended, stop_all_services has run; it has looked at every started
\* process, and each one it found running was sent SIGTERM and, when the
\* wait timed out, SIGKILL, unless stopping that process raised; a process
\* is left running only when stopping it raised.
C25_ServicesStoppedOnEveryPath ==
    runner_pc = "returned"
    => /\ stop_runs = 1
       /\ \A i \in 1..Len(processes) :
            /\ processes[i].polled # ""
            /\ processes[i].polled = "running"
               => /\ SentTo(processes[i], "SIGTERM") \/ processes[i].error
                  /\ processes[i].wait = "timeout"
                     => SentTo(processes[i], "SIGKILL") \/ processes[i].error
            /\ processes[i].state = "running" => processes[i].error

C25_Witness ==
    /\ runner_pc = "returned"
    /\ runner_path = "KeyboardInterrupt"
    /\ Len(processes) = 2
    /\ processes[1].error
    /\ processes[2].signals = << "SIGTERM", "SIGKILL" >>

-----------------------------------------------------------------------------
(* Exit status of test_ollama_adk_integration.py *)

Succeeded(name) ==
    \E i \in 1..Len(test_results) :
        test_results[i].test = name /\ test_results[i].success

\* C26: test_ollama_adk_integration.py exits with 0 only if an ADK session
\* was created and the simple query or the data-science query sent through
\* the ADK agent succeeded.
C26_ExitZeroNeedsAgentQuery ==
    tester_exit = 0
    => /\ Succeeded("create_session")
       /\ Succeeded("simple_query_adk") \/ Succeeded("data_science_query_adk")

====
